---- MODULE Spec2Model ----
(***************************************************************************)
(* A model of llmdb: the DocumentStore (store.go), its filter compiler,    *)
(* and the background embedding worker (main.go).                          *)
(*                                                                         *)
(* Strings of the program are sequences of one-character strings, so that  *)
(* joining, splitting, validating and pattern matching are computed on     *)
(* characters as the code computes them.                                   *)
(***************************************************************************)
EXTENDS Integers, Sequences, FiniteSets, TLC

(***************************************************************************)
(* Bounds of the model                                                     *)
(***************************************************************************)
\* a tag has at most MaxTagLen characters, a document at most MaxTags tags
MaxTagLen == 2
MaxTags == 2
\* time.Now() takes the values 1..MaxClock (0 is the zero time.Time)
MaxClock == 2
\* sql.Open succeeds at most MaxConns times in one behaviour
MaxConns == 3

(***************************************************************************)
(* Program constants                                                       *)
(***************************************************************************)
\* isValidTableName: len(name) > 64 is rejected
MaxTableNameLen == 64

(***************************************************************************)
(* Characters and strings                                                  *)
(***************************************************************************)
Lower == {"a", "b", "c", "d", "e", "f", "g", "h", "i", "j", "k", "l", "m",
          "n", "o", "p", "q", "r", "s", "t", "u", "v", "w", "x", "y", "z"}
Upper == {"A", "B", "C", "D", "E", "F", "G", "H", "I", "J", "K", "L", "M",
          "N", "O", "P", "Q", "R", "S", "T", "U", "V", "W", "X", "Y", "Z"}
Digit == {"0", "1", "2", "3", "4", "5", "6", "7", "8", "9"}

Max(a, b) == IF a >= b THEN a ELSE b
Min(a, b) == IF a <= b THEN a ELSE b

Range(s) == {s[i] : i \in 1..Len(s)}

\* the sequences over S of length 0..n
SeqUpTo(S, n) == UNION {[1..k -> S] : k \in 0..n}

\* a string of n copies of the character ch
Repeat(ch, n) == [i \in 1..n |-> ch]

RECURSIVE Concat(_)
\* the concatenation of a sequence of strings
Concat(ss) == IF ss = <<>> THEN <<>> ELSE Head(ss) \o Concat(Tail(ss))

(***************************************************************************)
(* Pure helpers of store.go                                                *)
(***************************************************************************)
isValidTableName(name) ==
    /\ ~(Len(name) = 0 \/ Len(name) > MaxTableNameLen)
    /\ \A i \in 1..Len(name) : name[i] \in Lower \cup Upper \cup Digit \cup {"_"}

RECURSIVE Join(_, _)
\* strings.Join(elems, sep)
Join(elems, sep) ==
    IF elems = <<>> THEN <<>>
    ELSE IF Len(elems) = 1 THEN elems[1]
    ELSE elems[1] \o sep \o Join(Tail(elems), sep)

RECURSIVE SplitFrom(_, _, _)
\* the pieces of s between occurrences of the character sep, cur being the
\* piece read so far
SplitFrom(s, sep, cur) ==
    IF s = <<>> THEN <<cur>>
    ELSE IF Head(s) = sep THEN <<cur>> \o SplitFrom(Tail(s), sep, <<>>)
    ELSE SplitFrom(Tail(s), sep, Append(cur, Head(s)))

\* strings.Split(s, sep) for a one-character sep: Split("", ",") is [""]
Split(s, sep) == SplitFrom(s, sep, <<>>)

\* a float32 is its IEEE-754 bit pattern, math.Float32bits(v)
LittleEndian4(bits) ==
    << bits % 256, (bits \div 256) % 256, (bits \div 65536) % 256,
       (bits \div 16777216) % 256 >>

RECURSIVE serializeVector(_)
serializeVector(vector) ==
    IF vector = <<>> THEN <<>>
    ELSE LittleEndian4(Head(vector)) \o serializeVector(Tail(vector))

deserializeVector(bytes) ==
    [i \in 1..(Len(bytes) \div 4) |->
        bytes[4*i - 3] + 256 * bytes[4*i - 2] + 65536 * bytes[4*i - 1]
          + 16777216 * bytes[4*i]]

boolToInt(b) == IF b THEN 1 ELSE 0

(***************************************************************************)
(* State                                                                   *)
(***************************************************************************)
VARIABLES
    files,      \* baseDir: tenant -> "absent" | "plain" | "legacy"
    dbs,        \* DocumentStore.dbs: tenant -> connection id, NoConn if absent
    opened,     \* the connections opened so far: connection id -> its tenant
    closed,     \* the connection ids on which Close() was called
    tables,     \* tenant -> (collection name -> rows in rowid order)
    fts,        \* tenant -> (collection name -> the entries of the index of
                \* its fts5 table: <<rowid, term>>)
    now,        \* the value time.Now() returns
    lastOp,     \* the last store operation: its arguments and what it returned
    filt,       \* a filter evaluation: the stored tags, the filter, the outcome
    conc,       \* goroutines inside getDB: their position and locals, and the
                \* runtime's view of the dbs map
    sched,      \* processNonEmbeddedDocuments: its position and locals, and
                \* what the cycle has done so far
    worker      \* startEmbeddingWorker and main: the stop channel, the
                \* ticker channel and the loop's position

storeVars == <<files, dbs, opened, closed, tables, fts, now, lastOp>>

Tenants == {"t1", "t2"}
NoConn == 0

\* A storage file is "legacy" when it holds a table named documents with the
\* columns of schema.sql (is_vectorized, created_at, updated_at) and at least
\* one row: the only table getDBInfo's query can read.
FileStates == {"absent", "plain", "legacy"}

\* a BLOB column value: SQL NULL, or a byte string
NullBlob == [isNull |-> TRUE, bytes |-> <<>>]
Blob(bytes) == [isNull |-> FALSE, bytes |-> bytes]

\* a Go value of a metadata field or of a filter: type is its dynamic type
\* ("string", "int", "float64", "bool", "strings" for []string), str its
\* text (a number's digits, true or false), list the elements of a []string
ScalarValue(type, str) == [type |-> type, str |-> str, list |-> <<>>]

\* Document.Metadata: a nil map, or a map of fields
NoMeta == [isNil |-> TRUE, fields |-> <<>>]

\* json.Marshal of the Metadata map, as the metadata column holds it: null
\* for a nil map; a JSON number does not keep the Go type of the number
MarshalMetadata(m) ==
    [isNull |-> m.isNil,
     fields |-> [k \in DOMAIN m.fields |->
        IF m.fields[k].type \in {"int", "float64"}
        THEN ScalarValue("number", m.fields[k].str)
        ELSE m.fields[k]]]

\* json.Unmarshal into map[string]interface{}: a JSON number is a float64
UnmarshalMetadata(j) ==
    [isNil |-> j.isNull,
     fields |-> [k \in DOMAIN j.fields |->
        IF j.fields[k].type = "number"
        THEN ScalarValue("float64", j.fields[k].str)
        ELSE j.fields[k]]]

NoRow == [rowid |-> 0, id |-> "", content |-> "", tags |-> <<>>,
          metadata |-> MarshalMetadata(NoMeta), vector |-> NullBlob,
          created_at |-> 0, updated_at |-> 0, is_embedded |-> 0]
NoDoc == [ID |-> "", Content |-> "", Metadata |-> NoMeta, Tags |-> <<>>,
          Vector |-> <<>>,
          CreatedAt |-> 0, UpdatedAt |-> 0, IsEmbedded |-> FALSE]

\* the index of the row with this id (ids are a PRIMARY KEY), 0 if none
IndexOf(rows, id) ==
    IF \E i \in 1..Len(rows) : rows[i].id = id
    THEN CHOOSE i \in 1..Len(rows) :
            rows[i].id = id /\ \A j \in 1..(i - 1) : rows[j].id # id
    ELSE 0

RemoveAt(rows, i) == SubSeq(rows, 1, i - 1) \o SubSeq(rows, i + 1, Len(rows))

EmptyTables == [n \in {} |-> <<>>]

NoOp == [op |-> "none", db |-> "", table |-> <<>>, id |-> "", err |-> "",
         executed |-> FALSE, given |-> NoDoc, doc |-> NoDoc, pre |-> NoRow,
         follows |-> FALSE, names |-> {}, existed |-> FALSE,
         query |-> <<>>, limit |-> 0, metric |-> "", results |-> <<>>]

StoreInit ==
    /\ files \in [Tenants -> FileStates]
    /\ dbs = [t \in Tenants |-> NoConn]
    /\ opened = <<>>
    /\ closed = {}
    /\ tables = [t \in Tenants |-> EmptyTables]
    /\ fts = [t \in Tenants |-> EmptyTables]
    /\ now = 1
    /\ lastOp = NoOp

(***************************************************************************)
(* DocumentStore: connection lookup and schema provisioning                *)
(***************************************************************************)
\* filepath.Join(s.baseDir, dbId + ".db"), as the name of the file without
\* directory and extension: Join cleans the path, which drops a leading
\* "./" of the dbId
dbPath(dbId) ==
    CASE dbId = "./t1" -> "t1"
      [] dbId = "./t2" -> "t2"
      [] OTHER -> dbId

\* getDB that opens the storage and does not put the connection in s.dbs
getDBWithoutCaching(t) ==
    IF dbs[t] # NoConn
    THEN UNCHANGED <<dbs, opened, files>>
    ELSE /\ Len(opened) < MaxConns
         /\ opened' = Append(opened, t)
         /\ UNCHANGED dbs
         /\ files' = [files EXCEPT ![dbPath(t)] =
                         IF @ = "absent" THEN "plain" ELSE @]

\* getDB as one step of a caller that nothing interleaves with: the cached
\* connection, or sql.Open + PRAGMA (which creates the file) and caching.
getDB(t) ==
    IF dbs[t] # NoConn
    THEN UNCHANGED <<dbs, opened, files>>
    ELSE /\ Len(opened) < MaxConns
         /\ opened' = Append(opened, t)
         /\ dbs' = [dbs EXCEPT ![t] = Len(opened) + 1]
         /\ files' = [files EXCEPT ![dbPath(t)] =
                         IF @ = "absent" THEN "plain" ELSE @]

\* ensureTable's effect on a tenant's collections for a valid name: every
\* statement is CREATE ... IF NOT EXISTS
ensureTable(ts, name) ==
    IF name \in DOMAIN ts THEN ts ELSE ts @@ (name :> <<>>)

\* "%s_fts"
FtsName(name) == name \o <<"_", "f", "t", "s">>

\* the tables an fts5 table with external content adds to sqlite_master:
\* itself and its shadow tables
FtsTables(name) ==
    {name \o <<"_", "f", "t", "s">> \o suffix :
        suffix \in {<<>>, <<"_", "d", "a", "t", "a">>, <<"_", "i", "d", "x">>,
                    <<"_", "d", "o", "c", "s", "i", "z", "e">>,
                    <<"_", "c", "o", "n", "f", "i", "g">>}}

\* ensureTable returns an error: the name is taken by the fts5 table, or a
\* shadow table, of a collection, so CREATE TABLE IF NOT EXISTS does nothing
\* and the triggers and indexes cannot be created on what is there
ensureTableFails(ts, name) ==
    /\ name \notin DOMAIN ts
    /\ \E n \in DOMAIN ts : FtsName(n) \notin DOMAIN ts /\ name \in FtsTables(n)

\* the INSERT returns an error: "name_fts" is a collection's table, so
\* CREATE VIRTUAL TABLE IF NOT EXISTS did nothing and the AFTER INSERT
\* trigger of name inserts (rowid, id, content) into that table, whose
\* created_at is NOT NULL
insertTriggerFails(ts, name) == FtsName(name) \in DOMAIN ts

\* the collection's rows, none when the table does not exist
RowsOf(t, name) ==
    IF name \in DOMAIN tables[dbPath(t)] THEN tables[dbPath(t)][name] ELSE <<>>

RowOf(t, name, id) ==
    IF IndexOf(RowsOf(t, name), id) = 0 THEN NoRow
    ELSE RowsOf(t, name)[IndexOf(RowsOf(t, name), id)]

(***************************************************************************)
(* DocumentStore: document operations                                      *)
(***************************************************************************)
\* the ids uuid.New() may return
GenIds == {"u1"}

\* the row StoreDocument binds to its INSERT for doc under id
StoredRow(doc, id) ==
    [rowid |-> 0,
     id |-> id,
     content |-> doc.Content,
     metadata |-> MarshalMetadata(doc.Metadata),
     tags |-> Join(doc.Tags, <<",">>),
     vector |-> IF Len(doc.Vector) > 0 THEN Blob(serializeVector(doc.Vector))
                ELSE NullBlob,
     created_at |-> IF doc.CreatedAt = 0 THEN now ELSE doc.CreatedAt,
     updated_at |-> now,
     is_embedded |-> boolToInt(IF Len(doc.Vector) > 0 THEN TRUE
                               ELSE doc.IsEmbedded)]

\* an upsert that replaces the whole row (INSERT OR REPLACE)
UpsertReplacingRow(rows, r) ==
    IF IndexOf(rows, r.id) = 0
    THEN Append(rows, [r EXCEPT !.rowid = Len(rows) + 1])
    ELSE [rows EXCEPT ![IndexOf(rows, r.id)] =
             [r EXCEPT !.rowid = rows[IndexOf(rows, r.id)].rowid]]

\* INSERT ... ON CONFLICT(id) DO UPDATE SET content, metadata, tags, vector,
\* updated_at, is_embedded (created_at is not in the SET list)
\* a new row takes the rowid after the largest one in the table
Upsert(rows, r) ==
    IF IndexOf(rows, r.id) = 0
    THEN Append(rows, [r EXCEPT !.rowid =
                          IF rows = <<>> THEN 1 ELSE rows[Len(rows)].rowid + 1])
    ELSE [rows EXCEPT ![IndexOf(rows, r.id)] =
            [@ EXCEPT !.content = r.content, !.tags = r.tags,
                      !.metadata = r.metadata,
                      !.vector = r.vector, !.updated_at = r.updated_at,
                      !.is_embedded = r.is_embedded]]

\* what the fts5 table indexes for a row: its content is one term
FtsIndexed(r) == {<<r.rowid, r.content>>}

\* the index of the collection's fts5 table, empty when it does not exist
FtsOf(t, name) ==
    IF name \in DOMAIN fts[dbPath(t)] THEN fts[dbPath(t)][name] ELSE {}

\* what the fts5 table, whose content is the collection's table, reads for
\* a rowid when a statement names it: the row the table holds now
ContentOf(rows, rowid) == {r \in Range(rows) : r.rowid = rowid}

\* trigger _ai: INSERT INTO "_fts"(rowid, id, content) VALUES (new...)
TriggerAI(ix, new) == ix \cup FtsIndexed(new)

\* trigger _ad, run after the row is gone: DELETE FROM "_fts" WHERE
\* rowid = old.rowid removes the terms of the rows it reads for that rowid
TriggerAD(ix, old, rows) ==
    ix \ UNION {FtsIndexed(r) : r \in ContentOf(rows, old.rowid)}

\* trigger _au, run after the row is updated: UPDATE "_fts" SET content =
\* new.content WHERE rowid = old.rowid removes the terms of the rows it
\* reads for that rowid and indexes the new content for them
TriggerAU(ix, old, new, rows) ==
    (ix \ UNION {FtsIndexed(r) : r \in ContentOf(rows, old.rowid)})
    \cup UNION {FtsIndexed([r EXCEPT !.content = new.content]) :
                  r \in ContentOf(rows, old.rowid)}

\* the Document the caller's *doc is after StoreDocument returned nil
DocAfterStore(doc, id) ==
    [doc EXCEPT !.ID = id,
                !.CreatedAt = IF doc.CreatedAt = 0 THEN now ELSE doc.CreatedAt,
                !.UpdatedAt = now,
                !.IsEmbedded = IF Len(doc.Vector) > 0 THEN TRUE
                               ELSE doc.IsEmbedded]

StoreDocument(t, name, doc) ==
    /\ getDB(t)
    /\ UNCHANGED <<closed, now>>
    /\ IF ~isValidTableName(name)
       THEN /\ UNCHANGED <<tables, fts>>
            /\ lastOp' = [NoOp EXCEPT !.op = "StoreDocument", !.db = t,
                             !.table = name, !.id = doc.ID, !.given = doc,
                             !.err = "invalid table name"]
       ELSE IF ensureTableFails(tables[dbPath(t)], name)
       THEN /\ UNCHANGED <<tables, fts>>
            /\ lastOp' = [NoOp EXCEPT !.op = "StoreDocument", !.db = t,
                             !.table = name, !.id = doc.ID, !.given = doc,
                             !.err = "failed to create trigger"]
       ELSE IF insertTriggerFails(tables[dbPath(t)], name)
       THEN /\ tables' = [tables EXCEPT ![dbPath(t)] =
                             ensureTable(tables[dbPath(t)], name)]
            /\ UNCHANGED fts
            /\ lastOp' = [NoOp EXCEPT !.op = "StoreDocument", !.db = t,
                             !.table = name, !.id = doc.ID, !.given = doc,
                             !.executed = TRUE,
                             !.err = "NOT NULL constraint failed"]
       ELSE \E id \in (IF doc.ID = "" THEN GenIds ELSE {doc.ID}) :
            /\ doc.ID = "" => IndexOf(RowsOf(t, name), id) = 0
            /\ tables' = [tables EXCEPT ![dbPath(t)] =
                  [ensureTable(tables[dbPath(t)], name) EXCEPT ![name] =
                      Upsert(@, StoredRow(doc, id))]]
            /\ LET rows == Upsert(RowsOf(t, name), StoredRow(doc, id))
                   new == rows[IndexOf(rows, id)]
               IN fts' = [fts EXCEPT ![dbPath(t)] =
                     (name :> IF IndexOf(RowsOf(t, name), id) = 0
                              THEN TriggerAI(FtsOf(t, name), new)
                              ELSE TriggerAU(FtsOf(t, name),
                                             RowOf(t, name, id), new, rows))
                     @@ fts[dbPath(t)]]
            /\ lastOp' = [NoOp EXCEPT !.op = "StoreDocument", !.db = t,
                             !.table = name, !.id = id, !.given = doc,
                             !.executed = TRUE,
                             !.doc = DocAfterStore(doc, id),
                             !.pre = RowOf(t, name, id)]

\* the previous operation was a successful StoreDocument of this tenant,
\* collection and id
FollowsStore(t, name, id) ==
    /\ lastOp.op = "StoreDocument" /\ lastOp.err = ""
    /\ lastOp.db = t /\ lastOp.table = name /\ lastOp.id = id

\* a deserialization that splits the stored tag string even when it is empty
DocOfRowAlwaysSplit(r) ==
    [ID |-> r.id,
     Content |-> r.content,
     Metadata |-> UnmarshalMetadata(r.metadata),
     Tags |-> Split(r.tags, ","),
     Vector |-> IF Len(r.vector.bytes) > 0 THEN deserializeVector(r.vector.bytes)
                ELSE <<>>,
     CreatedAt |-> r.created_at,
     UpdatedAt |-> r.updated_at,
     IsEmbedded |-> (r.is_embedded = 1)]

\* the Document GetDocument builds from a scanned row
DocOfRow(r) ==
    [ID |-> r.id,
     Content |-> r.content,
     Metadata |-> UnmarshalMetadata(r.metadata),
     Tags |-> IF r.tags # <<>> THEN Split(r.tags, ",") ELSE <<>>,
     Vector |-> IF Len(r.vector.bytes) > 0 THEN deserializeVector(r.vector.bytes)
                ELSE <<>>,
     CreatedAt |-> r.created_at,
     UpdatedAt |-> r.updated_at,
     IsEmbedded |-> (r.is_embedded = 1)]

\* GetDocument interpolates tableName into its SELECT and runs it
GetDocument(t, name, id) ==
    /\ getDB(t)
    /\ UNCHANGED <<closed, now, tables, fts>>
    /\ lastOp' = [NoOp EXCEPT !.op = "GetDocument", !.db = t, !.table = name,
                     !.id = id, !.executed = TRUE,
                     !.follows = FollowsStore(t, name, id),
                     !.given = IF FollowsStore(t, name, id) THEN lastOp.given
                               ELSE NoDoc,
                     !.pre = RowOf(t, name, id),
                     !.err = IF name \notin DOMAIN tables[dbPath(t)] THEN "no such table"
                             ELSE IF IndexOf(RowsOf(t, name), id) = 0
                                  THEN "document not found" ELSE "",
                     !.doc = IF IndexOf(RowsOf(t, name), id) = 0 THEN NoDoc
                             ELSE DocOfRow(RowOf(t, name, id))]

\* DeleteDocument interpolates tableName into its DELETE and runs it
DeleteDocument(t, name, id) ==
    /\ getDB(t)
    /\ UNCHANGED <<closed, now>>
    /\ tables' = IF IndexOf(RowsOf(t, name), id) = 0 THEN tables
                 ELSE [tables EXCEPT ![dbPath(t)][name] =
                          RemoveAt(@, IndexOf(@, id))]
    /\ fts' = IF IndexOf(RowsOf(t, name), id) = 0 THEN fts
              ELSE [fts EXCEPT ![dbPath(t)] =
                      (name :> TriggerAD(FtsOf(t, name), RowOf(t, name, id),
                                  RemoveAt(RowsOf(t, name),
                                           IndexOf(RowsOf(t, name), id))))
                      @@ fts[dbPath(t)]]
    /\ lastOp' = [NoOp EXCEPT !.op = "DeleteDocument", !.db = t, !.table = name,
                     !.id = id, !.executed = TRUE,
                     !.pre = RowOf(t, name, id),
                     !.err = IF name \notin DOMAIN tables[dbPath(t)] THEN "no such table"
                             ELSE IF IndexOf(RowsOf(t, name), id) = 0
                                  THEN "document not found" ELSE ""]

\* an update that also resets the creation time
UpdateVectorRowAndCreatedAt(r, vector) ==
    [r EXCEPT !.vector = Blob(serializeVector(vector)), !.is_embedded = 1,
              !.updated_at = now, !.created_at = now]

\* UPDATE ... SET vector = ?, is_embedded = 1, updated_at = ? WHERE id = ?
UpdateVectorRow(r, vector) ==
    [r EXCEPT !.vector = Blob(serializeVector(vector)), !.is_embedded = 1,
              !.updated_at = now]

UpdateDocumentVector(t, name, id, vector) ==
    /\ getDB(t)
    /\ UNCHANGED <<closed, now>>
    /\ tables' = IF IndexOf(RowsOf(t, name), id) = 0 THEN tables
                 ELSE [tables EXCEPT ![dbPath(t)][name][IndexOf(RowsOf(t, name), id)] =
                          UpdateVectorRow(@, vector)]
    /\ fts' = IF IndexOf(RowsOf(t, name), id) = 0 THEN fts
              ELSE [fts EXCEPT ![dbPath(t)] =
                      (name :> TriggerAU(FtsOf(t, name), RowOf(t, name, id),
                                  UpdateVectorRow(RowOf(t, name, id), vector),
                                  [RowsOf(t, name) EXCEPT
                                     ![IndexOf(RowsOf(t, name), id)] =
                                        UpdateVectorRow(@, vector)]))
                      @@ fts[dbPath(t)]]
    /\ lastOp' = [NoOp EXCEPT !.op = "UpdateDocumentVector", !.db = t,
                     !.table = name, !.id = id, !.executed = TRUE,
                     !.pre = RowOf(t, name, id),
                     !.given = [NoDoc EXCEPT !.Vector = vector],
                     !.err = IF name \notin DOMAIN tables[dbPath(t)] THEN "no such table"
                             ELSE IF IndexOf(RowsOf(t, name), id) = 0
                                  THEN "document not found" ELSE ""]

(***************************************************************************)
(* DocumentStore: tenant operations                                        *)
(***************************************************************************)
\* a map that still holds the entry of t
MapKeeping(t) == dbs

\* delete(s.dbs, dbId)
MapWithout(t) == [dbs EXCEPT ![t] = NoConn]

DeleteDatabase(t) ==
    /\ IF dbs[t] # NoConn
       THEN /\ closed' = closed \cup {dbs[t]}
            /\ dbs' = MapWithout(t)
       ELSE UNCHANGED <<closed, dbs>>
    /\ IF files[dbPath(t)] = "absent"
       THEN UNCHANGED <<files, tables, fts>>
       ELSE /\ files' = [files EXCEPT ![dbPath(t)] = "absent"]
            /\ tables' = [tables EXCEPT ![dbPath(t)] = EmptyTables]
            /\ fts' = [fts EXCEPT ![dbPath(t)] = EmptyTables]
    /\ UNCHANGED <<opened, now>>
    /\ lastOp' = [NoOp EXCEPT !.op = "DeleteDatabase", !.db = t,
                     !.existed = files[dbPath(t)] # "absent",
                     !.err = IF files[dbPath(t)] = "absent" THEN "database not found"
                             ELSE ""]

\* Close: the cached connections are closed in the order Go iterates s.dbs
\* (order); the first db.Close() that returns an error (the one at index
\* failed, 0 when none does) ends the loop and is returned
Close(order, failed) ==
    /\ Len(order) = Cardinality({t \in Tenants : dbs[t] # NoConn})
    /\ Range(order) = {t \in Tenants : dbs[t] # NoConn}
    /\ failed \in 0..Len(order)
    /\ closed' = closed \cup
          {dbs[order[i]] :
             i \in 1..(IF failed = 0 THEN Len(order) ELSE failed)}
    /\ UNCHANGED <<files, dbs, opened, tables, fts, now>>
    /\ lastOp' = [NoOp EXCEPT !.op = "Close",
                     !.err = IF failed = 0 THEN "" ELSE "close failed"]

\* the names ListDatabases collects: open connections and *.db files
dbNames == {t \in Tenants : dbs[t] # NoConn \/ files[t] # "absent"}

\* getDBInfo's query reads is_vectorized, created_at and updated_at FROM
\* documents and scans the counts into ints: it succeeds only on a file
\* whose documents table has those columns and a row
getDBInfoSucceeds(t) == files[dbPath(t)] = "legacy"

\* ListDatabases: getDBInfo resolves every name through getDB, in the order
\* Go iterates the name map (order: the names not yet cached), and keeps the
\* names whose query succeeded
ListDatabases(order) ==
    /\ Len(order) = Cardinality({t \in dbNames : dbs[t] = NoConn})
    /\ Range(order) = {t \in dbNames : dbs[t] = NoConn}
    /\ Len(opened) + Len(order) <= MaxConns
    /\ opened' = opened \o order
    /\ dbs' = [t \in Tenants |->
                IF t \in Range(order)
                THEN Len(opened) + CHOOSE i \in 1..Len(order) : order[i] = t
                ELSE dbs[t]]
    /\ UNCHANGED <<files, closed, tables, fts, now>>
    /\ lastOp' = [NoOp EXCEPT !.op = "ListDatabases",
                     !.names = {t \in dbNames : getDBInfoSucceeds(t)}]

\* time passes: a later time.Now() returns a later value
Tick ==
    /\ now < MaxClock
    /\ now' = now + 1
    /\ UNCHANGED <<files, dbs, opened, closed, tables, fts, lastOp>>

NoFilt == [tags |-> <<>>, meta |-> NoMeta, hit |-> FALSE, filters |-> <<>>,
           order |-> <<>>, sql |-> <<>>, args |-> <<>>, result |-> "none"]

\* the goroutines that call store operations concurrently (HTTP handlers
\* and the embedding worker)
NumCallers == 2
Callers == 1..NumCallers

NoConc == [pc |-> [c \in Callers |-> "idle"],
           tenant |-> [c \in Callers |-> ""],
           db |-> [c \in Callers |-> NoConn],
           ret |-> [c \in Callers |-> NoConn],
           writing |-> FALSE,
           crashed |-> FALSE]

\* StubEmbedder.dimensions (2560 in NewStubEmbedder), cut down
StubDimensions == 1

\* DefaultConfig(): the stub embedder and its dimensionality
DefaultConfig ==
    [EmbeddingURL |-> "stub", EmbeddingDimensions |-> StubDimensions]

\* no cycle of processNonEmbeddedDocuments has run.  calls counts the
\* cycle's embedder.Embed calls, persisted holds the documents whose
\* UpdateDocumentVector returned nil in the cycle, visited the collections
\* GetNonEmbeddedDocuments was called on, fetched the documents it returned,
\* attempted the documents Embed was called for, before is the tables at
\* the cycle's start; env is what the embedding service and the storage
\* engine answer at the moment; config is the configuration main loaded.
NoSched == [pc |-> "idle", databases |-> <<>>, db |-> "", tableNames |-> <<>>,
            tableName |-> <<>>, docs |-> <<>>, vector |-> <<>>,
            totalProcessed |-> 0, calls |-> 0, persisted |-> {},
            visited |-> {}, fetched |-> {}, attempted |-> {},
            before |-> [t \in Tenants |-> EmptyTables],
            env |-> "ok", flips |-> 0, config |-> DefaultConfig]

\* the worker goroutine is not started: stop is open, no tick is buffered
NoWorker == [pc |-> "off", stop |-> FALSE, tick |-> FALSE, exited |-> FALSE,
             startedAfterStop |-> FALSE]

nonStoreVars == <<filt, conc, sched, worker>>
NonStoreIdle ==
    /\ filt = NoFilt
    /\ conc = NoConc
    /\ sched = NoSched
    /\ worker = NoWorker

vars == <<files, dbs, opened, closed, tables, fts, now, lastOp, filt, conc,
          sched, worker>>

(***************************************************************************)
(* SpecDoc: one caller at a time issues document operations on one tenant  *)
(***************************************************************************)
\* math.Float32bits(0.1): the value the stub embedder fills its vectors with
F1 == 1036831949

\* collection names the callers pass: two valid, three the rule rejects
NameA == <<"a">>
NameEmpty == <<>>
NameDash == <<"a", "-", "b">>
NameLong == Repeat("a", MaxTableNameLen + 1)
DocNames == {NameA, NameEmpty, NameDash, NameLong}

DocIds == {"d1"}
DocInputs ==
    [ID : DocIds, Content : {"x", "y"}, Metadata : {NoMeta}, Tags : {<<>>},
     Vector : {<<>>, <<F1>>}, CreatedAt : {0}, UpdatedAt : {0},
     IsEmbedded : BOOLEAN]
VectorInputs == {<<>>, <<F1>>}

DocInit ==
    /\ StoreInit
    /\ files = [t \in Tenants |-> "absent"]
    /\ NonStoreIdle

DocStore ==
    /\ \E n \in DocNames, d \in DocInputs : StoreDocument("t1", n, d)
    /\ UNCHANGED nonStoreVars
DocGet ==
    /\ \E n \in DocNames, i \in DocIds \cup GenIds : GetDocument("t1", n, i)
    /\ UNCHANGED nonStoreVars
DocDelete ==
    /\ \E n \in DocNames, i \in DocIds \cup GenIds :
          DeleteDocument("t1", n, i)
    /\ UNCHANGED nonStoreVars
DocUpdateVector ==
    /\ \E n \in DocNames, i \in DocIds \cup GenIds, v \in VectorInputs :
          UpdateDocumentVector("t1", n, i, v)
    /\ UNCHANGED nonStoreVars
DocTick == Tick /\ UNCHANGED nonStoreVars

DocNext == DocStore \/ DocGet \/ DocDelete \/ DocUpdateVector \/ DocTick

SpecDoc == DocInit /\ [][DocNext]_vars

\* the stored rows of the operation's collection that carry the operation's id
RowsWithId(op) ==
    {i \in 1..Len(RowsOf(op.db, op.table)) :
        RowsOf(op.db, op.table)[i].id = op.id}

\* C2: a store operation executes a statement that has the collection name
\* interpolated only when the name passes the identifier rule (1-64
\* characters of [A-Za-z0-9_]).
C2_OnlyValidNamesExecuted ==
    lastOp.executed => isValidTableName(lastOp.table)

\* C5: after StoreDocument on an id that was already stored, the row keeps
\* the created_at it had, carries the content and updated_at of this call,
\* and is the only row with that id.
C5_UpsertPreservesCreatedAt ==
    (lastOp.op = "StoreDocument" /\ lastOp.err = "" /\ lastOp.pre # NoRow) =>
        /\ Cardinality(RowsWithId(lastOp)) = 1
        /\ RowOf(lastOp.db, lastOp.table, lastOp.id).created_at
              = lastOp.pre.created_at
        /\ RowOf(lastOp.db, lastOp.table, lastOp.id).content
              = lastOp.given.Content
        /\ RowOf(lastOp.db, lastOp.table, lastOp.id).updated_at
              = lastOp.doc.UpdatedAt
        /\ lastOp.doc.UpdatedAt >= lastOp.pre.updated_at

\* a second StoreDocument of the same id, later, with other content
C5_Witness ==
    /\ lastOp.op = "StoreDocument" /\ lastOp.err = "" /\ lastOp.pre # NoRow
    /\ lastOp.pre.content # lastOp.given.Content
    /\ lastOp.pre.created_at < lastOp.doc.UpdatedAt
    /\ lastOp.pre.updated_at < lastOp.doc.UpdatedAt

\* a stored vector is present and non-empty
HasVector(r) == ~r.vector.isNull /\ Len(r.vector.bytes) > 0

\* C6: every stored document has is_embedded true if and only if its stored
\* vector is present and non-empty.
C6_EmbeddedIffVector ==
    \A t \in Tenants : \A n \in DOMAIN tables[t] :
        \A i \in 1..Len(tables[t][n]) :
            (tables[t][n][i].is_embedded = 1) <=> HasVector(tables[t][n][i])

(***************************************************************************)
(* SpecDb: one caller at a time issues tenant and document operations on   *)
(* a base directory that may hold files of earlier runs                    *)
(***************************************************************************)
DbInit ==
    /\ StoreInit
    /\ NonStoreIdle

DbDocs == {[NoDoc EXCEPT !.Content = "x"],
           [NoDoc EXCEPT !.ID = "d1", !.Content = "x"]}

DbStore ==
    /\ \E t \in Tenants, n \in {NameA, NameDash}, d \in DbDocs :
          StoreDocument(t, n, d)
    /\ UNCHANGED nonStoreVars
DbDeleteDatabase ==
    /\ \E t \in Tenants : DeleteDatabase(t)
    /\ UNCHANGED nonStoreVars
DbListDatabases ==
    /\ \E o \in SeqUpTo(Tenants, Cardinality(Tenants)) : ListDatabases(o)
    /\ UNCHANGED nonStoreVars

DbNext == DbStore \/ DbDeleteDatabase \/ DbListDatabases

SpecDb == DbInit /\ [][DbNext]_vars

\* C7: ListDatabases returns an entry for every tenant that has a cached
\* connection or a '<tenant>.db' file in the base directory.
C7_ListDatabasesListsEveryTenant ==
    lastOp.op = "ListDatabases" =>
        \A t \in Tenants :
            (dbs[t] # NoConn \/ files[t] # "absent") => t \in lastOp.names

(***************************************************************************)
(* SpecTags: documents with tag lists are stored and read back             *)
(***************************************************************************)
TagChars == {"a", ","}
TagStrings == SeqUpTo(TagChars, MaxTagLen)
TagLists == SeqUpTo(TagStrings, MaxTags)

TagsStore ==
    /\ \E tl \in TagLists :
          StoreDocument("t1", NameA, [NoDoc EXCEPT !.ID = "d1", !.Content = "x",
                                                  !.Tags = tl])
    /\ UNCHANGED nonStoreVars
TagsGet == GetDocument("t1", NameA, "d1") /\ UNCHANGED nonStoreVars

TagsNext == TagsStore \/ TagsGet

SpecTags == DocInit /\ [][TagsNext]_vars

\* a tag list the comma-joined encoding can carry: no tag holds the
\* delimiter, and the list is not the single empty tag
RoundTrippable(tl) ==
    /\ \A i \in 1..Len(tl) : "," \notin Range(tl[i])
    /\ tl # << <<>> >>

\* C4 (as claimed): GetDocument right after StoreDocument of a document with
\* tags T returns tags equal to T, for any T.
C4_TagsRoundTripAny ==
    (lastOp.op = "GetDocument" /\ lastOp.follows) =>
        (lastOp.err = "" /\ lastOp.doc.Tags = lastOp.given.Tags)

\* C4 (amended): GetDocument right after StoreDocument of a document with
\* tags T returns tags equal to T, order preserved, provided no tag of T
\* contains ',' and T is not the list holding only the empty tag.
C4_TagsRoundTrip ==
    (lastOp.op = "GetDocument" /\ lastOp.follows
        /\ RoundTrippable(lastOp.given.Tags)) =>
        (lastOp.err = "" /\ lastOp.doc.Tags = lastOp.given.Tags)

\* two distinct tags, one of them empty, read back in order
C4_Witness ==
    /\ lastOp.op = "GetDocument" /\ lastOp.follows
    /\ RoundTrippable(lastOp.given.Tags)
    /\ Len(lastOp.given.Tags) = 2
    /\ lastOp.given.Tags[1] # lastOp.given.Tags[2]
    /\ lastOp.doc.Tags = lastOp.given.Tags

(***************************************************************************)
(* The filter compiler and the backend's evaluation of its predicates      *)
(***************************************************************************)
LowerSeq == <<"a", "b", "c", "d", "e", "f", "g", "h", "i", "j", "k", "l", "m",
              "n", "o", "p", "q", "r", "s", "t", "u", "v", "w", "x", "y", "z">>
UpperSeq == <<"A", "B", "C", "D", "E", "F", "G", "H", "I", "J", "K", "L", "M",
              "N", "O", "P", "Q", "R", "S", "T", "U", "V", "W", "X", "Y", "Z">>

\* SQLite's LIKE folds the case of ASCII letters
FoldCase(ch) ==
    IF ch \in Upper
    THEN LowerSeq[CHOOSE i \in 1..Len(UpperSeq) : UpperSeq[i] = ch]
    ELSE ch

RECURSIVE Like(_, _)
\* SQL: str LIKE pattern, with no ESCAPE: % matches any run of characters,
\* _ any one character, any other character itself up to ASCII case
Like(str, pattern) ==
    IF pattern = <<>> THEN str = <<>>
    ELSE IF Head(pattern) = "%"
         THEN Like(str, Tail(pattern))
                \/ (str # <<>> /\ Like(Tail(str), pattern))
    ELSE IF str = <<>> THEN FALSE
    ELSE IF Head(pattern) = "_" THEN Like(Tail(str), Tail(pattern))
    ELSE FoldCase(Head(pattern)) = FoldCase(Head(str))
            /\ Like(Tail(str), Tail(pattern))

\* a filter value as Go decodes it: a string, or a list of strings
StringValue(v) == [type |-> "string", str |-> v, list |-> <<>>]
StringsValue(l) == [type |-> "strings", str |-> <<>>, list |-> l]

\* the condition buildFilterClause appends for one tag, with its four
\* bound arguments: tag, tag+",%", "%,"+tag+",%", "%,"+tag
TagCondition(tag) ==
    [kind |-> "tags", key |-> "",
     text |-> <<"(", "d.tags", "=", "?", "OR", "d.tags", "LIKE", "?", "OR",
                "d.tags", "LIKE", "?", "OR", "d.tags", "LIKE", "?", ")">>,
     args |-> << tag, tag \o <<",", "%">>,
                 <<"%", ",">> \o tag \o <<",", "%">>, <<"%", ",">> \o tag >>]

\* an SQL value: NULL, a text or a number
SqlNull == [type |-> "null", str |-> <<>>]

\* the argument buildFilterClause binds for a metadata value: a string as
\* it is, a number as a number, a bool as 1 or 0, anything else as the text
\* of its JSON
BindArg(v) ==
    IF v.type = "string" THEN [type |-> "text", str |-> v.str]
    ELSE IF v.type \in {"int", "float64"} THEN [type |-> "numeric", str |-> v.str]
    ELSE IF v.type = "bool"
    THEN [type |-> "numeric",
          str |-> IF v.str = <<"t", "r", "u", "e">> THEN <<"1">> ELSE <<"0">>]
    ELSE [type |-> "text",
          str |-> <<"[">> \o Join([i \in 1..Len(v.list) |->
                                     <<"\"">> \o v.list[i] \o <<"\"">>],
                                  <<",">>) \o <<"]">>]

\* json_extract(metadata, '$.key') for a key that is a plain member name:
\* NULL without such a member, a text for a JSON string, a number for a
\* JSON number, 1 or 0 for true or false
JsonExtract(j, key) ==
    IF j.isNull \/ key \notin DOMAIN j.fields THEN SqlNull
    ELSE IF j.fields[key].type = "string"
    THEN [type |-> "text", str |-> j.fields[key].str]
    ELSE IF j.fields[key].type = "number"
    THEN [type |-> "numeric", str |-> j.fields[key].str]
    ELSE BindArg(j.fields[key])

\* a condition that also writes the value into the text it compares with
MetaConditionInterpolated(key, value) ==
    [kind |-> "meta", key |-> key,
     text |-> <<"json_extract(", "d.metadata", ",", "'$." \o key \o "'", ")",
                "=", "'">> \o value.str \o <<"'">>,
     args |-> <<BindArg(value)>>]

\* the condition of a metadata key: json_extract(d.metadata, '$.key') = ?
MetaCondition(key, value) ==
    [kind |-> "meta", key |-> key,
     text |-> <<"json_extract(", "d.metadata", ",", "'$." \o key \o "'", ")",
                "=", "?">>,
     args |-> <<BindArg(value)>>]

\* the conditions of one filter key
KeyConditions(key, value) ==
    IF key = "tags"
    THEN IF value.type = "string" THEN <<TagCondition(value.str)>>
         ELSE IF value.type = "strings"
              THEN [i \in 1..Len(value.list) |-> TagCondition(value.list[i])]
         ELSE <<>>
    ELSE IF key = "tag"
    THEN IF value.type = "string" THEN <<TagCondition(value.str)>> ELSE <<>>
    ELSE <<MetaCondition(key, value)>>

\* buildFilterClause: the conditions, in the order Go's map iteration
\* (order, a sequence of the keys) visits the filter's keys
buildFilterClause(filters, order) ==
    Concat([i \in 1..Len(order) |-> KeyConditions(order[i], filters[order[i]])])

\* (tags = ? OR tags LIKE ? OR tags LIKE ? OR tags LIKE ?) on a row, or
\* json_extract(metadata, '$.key') = ?, true when neither side is NULL and
\* both are texts or both numbers of the same value
EvalCondition(r, c) ==
    IF c.kind = "tags"
    THEN \/ r.tags = c.args[1]
         \/ Like(r.tags, c.args[2])
         \/ Like(r.tags, c.args[3])
         \/ Like(r.tags, c.args[4])
    ELSE /\ JsonExtract(r.metadata, c.key) # SqlNull
         /\ JsonExtract(r.metadata, c.key) = c.args[1]

\* conditions combined with OR
EvalClauseAny(r, conditions) ==
    \E i \in 1..Len(conditions) : EvalCondition(r, conditions[i])

\* the conditions are joined with AND
EvalClause(r, conditions) ==
    \A i \in 1..Len(conditions) : EvalCondition(r, conditions[i])

\* the text of the clause: " AND " + strings.Join(conditions, " AND ")
ClauseText(conditions) ==
    Concat([i \in 1..Len(conditions) |-> <<"AND">> \o conditions[i].text])

\* the arguments of the clause, in the order they were appended
ClauseArgs(conditions) ==
    Concat([i \in 1..Len(conditions) |-> conditions[i].args])

(***************************************************************************)
(* SpecFilter: a tag filter is compiled and evaluated on a stored document *)
(***************************************************************************)
\* a stored document has at most MaxFilterTags tags
MaxFilterTags == 2

FilterDocTags == {<<"a">>, <<"b">>, <<"a", "b">>, <<"A">>}
FilterDocTagLists == SeqUpTo(FilterDocTags, MaxFilterTags)
FilterValues ==
    {<<>>, <<"a">>, <<"b">>, <<"A">>, <<"a", "b">>, <<"a", ",", "b">>,
     <<"%">>, <<"_">>, <<"a", "_">>}
FilterSpecs ==
    {("tag" :> StringValue(x)) : x \in FilterValues}
    \cup {("tags" :> StringValue(x)) : x \in FilterValues}
    \cup {("tags" :> StringsValue(l)) : l \in SeqUpTo(FilterValues, 2)}
    \cup {("tag" :> StringValue(x) @@ "tags" :> StringsValue(<<y>>)) :
             x \in FilterValues, y \in {<<"a">>, <<"b">>}}

\* the metadata of a stored document: none, or a field k
MetaValues ==
    {ScalarValue("string", <<"1">>), ScalarValue("string", <<"t", "r", "u", "e">>),
     ScalarValue("int", <<"1">>), ScalarValue("int", <<"2">>),
     ScalarValue("bool", <<"t", "r", "u", "e">>),
     ScalarValue("bool", <<"f", "a", "l", "s", "e">>)}
DocMetas == {NoMeta} \cup {[isNil |-> FALSE, fields |-> ("k" :> v)] : v \in MetaValues}

\* filters on the metadata field k, alone and with a tag filter
MetaFilterSpecs ==
    {("k" :> v) : v \in MetaValues}
    \cup {("k" :> v @@ "tag" :> StringValue(x)) :
             v \in MetaValues, x \in {<<"a">>, <<"b">>}}

\* the orders in which Go may iterate the keys of a map
KeyOrders(filters) ==
    {o \in SeqUpTo(DOMAIN filters, Cardinality(DOMAIN filters)) :
        /\ Len(o) = Cardinality(DOMAIN filters)
        /\ Range(o) = DOMAIN filters}

FilterInit ==
    /\ StoreInit
    /\ files = [t \in Tenants |-> "absent"]
    /\ conc = NoConc
    /\ sched = NoSched
    /\ worker = NoWorker
    /\ \E tl \in FilterDocTagLists, f \in FilterSpecs \cup MetaFilterSpecs :
          \E o \in KeyOrders(f), hit \in BOOLEAN,
             m \in (IF "k" \in DOMAIN f THEN DocMetas ELSE {NoMeta}) :
            filt = [tags |-> tl, meta |-> m, hit |-> hit, filters |-> f,
                    order |-> o, sql |-> <<>>, args |-> <<>>,
                    result |-> "none"]

\* the row StoreDocument stores for the document of the evaluation
FilterRow ==
    StoredRow([NoDoc EXCEPT !.Tags = filt.tags, !.Metadata = filt.meta], "d1")

\* the row is stored as StoreDocument stores it, and the search's WHERE
\* clause is evaluated on it: "_fts" MATCH ? (hit: the row matches the
\* query) followed by the compiled clause
FilterApply ==
    /\ filt.result = "none"
    /\ filt' = [filt EXCEPT
          !.sql = ClauseText(buildFilterClause(filt.filters, filt.order)),
          !.args = ClauseArgs(buildFilterClause(filt.filters, filt.order)),
          !.result =
            IF filt.hit /\ EvalClause(FilterRow,
                              buildFilterClause(filt.filters, filt.order))
            THEN "match" ELSE "nomatch"]
    /\ UNCHANGED <<storeVars, conc, sched, worker>>

FilterNext == FilterApply

SpecFilter == FilterInit /\ [][FilterNext]_vars

\* the tag values a filter asks for
FilterTags(filters) ==
    (IF "tag" \in DOMAIN filters THEN {filters["tag"].str} ELSE {})
    \cup (IF "tags" \in DOMAIN filters
          THEN IF filters["tags"].type = "string" THEN {filters["tags"].str}
               ELSE Range(filters["tags"].list)
          ELSE {})

\* C3: a tag filter matches a document if and only if every filter value
\* equals one of the elements obtained by splitting the stored tag string
\* on ','.
C3_TagFilterIsExactMembership ==
    filt.result # "none" /\ filt.hit /\ DOMAIN filt.filters \subseteq {"tag", "tags"} =>
        ((filt.result = "match") <=>
            \A x \in FilterTags(filt.filters) :
                x \in Range(Split(Join(filt.tags, <<",">>), ",")))

\* C16: with several filter keys a search returns the document if and only
\* if the document matches the query and satisfies every condition of every
\* filter key, whatever the order in which the keys are iterated.
C16_FilterKeysAreAndCombined ==
    filt.result # "none" =>
        /\ (filt.result = "match") <=>
              (filt.hit /\ \A key \in DOMAIN filt.filters :
                  \A i \in 1..Len(KeyConditions(key, filt.filters[key])) :
                      EvalCondition(FilterRow,
                                    KeyConditions(key, filt.filters[key])[i]))
        /\ \A o \in KeyOrders(filt.filters) :
              (filt.result = "match") <=>
                  (filt.hit /\ \A i \in 1..Len(buildFilterClause(filt.filters, o)) :
                      EvalCondition(FilterRow, buildFilterClause(filt.filters, o)[i]))

\* a query hit on the document with a tag filter that holds and a metadata
\* filter that does not: the document is not returned
C16_Witness ==
    /\ filt.result = "nomatch"
    /\ filt.hit
    /\ DOMAIN filt.filters = {"k", "tag"}
    /\ EvalCondition(FilterRow, TagCondition(filt.filters["tag"].str))
    /\ ~EvalCondition(FilterRow, MetaCondition("k", filt.filters["k"]))

\* the JSON type of a Go scalar
JsonType(v) == IF v.type \in {"int", "float64"} THEN "number" ELSE v.type

\* C17: a metadata filter {k: v} with a scalar v matches exactly the
\* documents whose metadata has key k holding a value equal to v of the
\* same type.
C17_MetadataFilterIsTypedEquality ==
    filt.result # "none" /\ filt.hit /\ DOMAIN filt.filters = {"k"} =>
        ((filt.result = "match") <=>
            /\ ~filt.meta.isNil
            /\ "k" \in DOMAIN filt.meta.fields
            /\ JsonType(filt.meta.fields["k"]) = JsonType(filt.filters["k"])
            /\ filt.meta.fields["k"].str = filt.filters["k"].str)

\* C18: a tag filter value that differs only in letter case from the
\* document's tags does not match the document, whether the document has
\* one tag or several.
C18_TagFilterIsCaseSensitive ==
    /\ filt.result # "none"
    /\ DOMAIN filt.filters = {"tag"}
    /\ filt.filters["tag"].str \notin Range(filt.tags)
    /\ \A i \in 1..Len(filt.tags) : "," \notin Range(filt.tags[i])
    /\ \E i \in 1..Len(filt.tags) :
          /\ Len(filt.tags[i]) = Len(filt.filters["tag"].str)
          /\ \A j \in 1..Len(filt.tags[i]) :
                FoldCase(filt.tags[i][j]) = FoldCase(filt.filters["tag"].str[j])
    => filt.result = "nomatch"

\* the number of tag values of a filter spec
TagValueCount(filters) ==
    (IF "tag" \in DOMAIN filters THEN 1 ELSE 0)
    + (IF "tags" \in DOMAIN filters
       THEN IF filters["tags"].type = "string" THEN 1
            ELSE Len(filters["tags"].list)
       ELSE 0)

\* the filter specs with the keys and the number of tag values of a spec
SameShape(filters) ==
    {f \in FilterSpecs \cup MetaFilterSpecs :
        /\ DOMAIN f = DOMAIN filters
        /\ TagValueCount(f) = TagValueCount(filters)}

\* the number of placeholders of a fragment
Placeholders(text) == Len(SelectSeq(text, LAMBDA tok : tok = "?"))

\* C19 as stated: two filter specs with the same keys and the same number
\* of tag values give the identical fragment, whose placeholders are as
\* many as the arguments.
C19_FragmentIndependentOfValues ==
    filt.result # "none" =>
        /\ Placeholders(filt.sql) = Len(filt.args)
        /\ \A f \in SameShape(filt.filters) : \A o \in KeyOrders(f) :
              ClauseText(buildFilterClause(f, o)) = filt.sql

\* C19, amended: two filter specs with the same keys and the same number of
\* tag values, whose keys are iterated in the same order, give the
\* identical fragment; the values are in the argument list only, one
\* argument per placeholder.
C19_FragmentIndependentOfValuesInSameOrder ==
    filt.result # "none" =>
        /\ Placeholders(filt.sql) = Len(filt.args)
        /\ \A f \in SameShape(filt.filters) :
              /\ ClauseText(buildFilterClause(f, filt.order)) = filt.sql
              /\ Len(ClauseArgs(buildFilterClause(f, filt.order))) = Len(filt.args)

\* a fragment of a tag condition and a metadata condition, and another spec
\* of the same shape with other values
C19_Witness ==
    /\ filt.result # "none"
    /\ DOMAIN filt.filters = {"k", "tag"}
    /\ Len(filt.args) = 5
    /\ \E f \in SameShape(filt.filters) :
          f["k"] # filt.filters["k"] /\ f["tag"] # filt.filters["tag"]

(***************************************************************************)
(* DocumentStore: what the embedding worker reads                          *)
(***************************************************************************)
DigitSeq == <<"0", "1", "2", "3", "4", "5", "6", "7", "8", "9">>

\* the BINARY collation of the characters a table name is made of
BinaryOrder == DigitSeq \o UpperSeq \o <<"_">> \o LowerSeq
CharCode(ch) == CHOOSE i \in 1..Len(BinaryOrder) : BinaryOrder[i] = ch

RECURSIVE NameLess(_, _)
NameLess(a, b) ==
    IF a = <<>> THEN b # <<>>
    ELSE IF b = <<>> THEN FALSE
    ELSE IF Head(a) = Head(b) THEN NameLess(Tail(a), Tail(b))
    ELSE CharCode(Head(a)) < CharCode(Head(b))

\* ORDER BY name
RECURSIVE SortNames(_)
SortNames(S) ==
    IF S = {} THEN <<>>
    ELSE LET m == CHOOSE x \in S : \A y \in S \ {x} : NameLess(x, y)
         IN <<m>> \o SortNames(S \ {m})

NameDocuments == <<"d", "o", "c", "u", "m", "e", "n", "t", "s">>

\* the rows of sqlite_master with type = 'table'
MasterTables(t) ==
    UNION {{name} \cup FtsTables(name) :
             name \in DOMAIN tables[dbPath(t)] \cup
                      (IF files[dbPath(t)] = "legacy"
                       THEN {NameDocuments} ELSE {})}

\* ListTables: name NOT LIKE '%_fts%' AND name NOT LIKE 'sqlite_%' ORDER BY name
ListedTables(t) ==
    SortNames({name \in MasterTables(t) :
        /\ ~Like(name, <<"%", "_", "f", "t", "s", "%">>)
        /\ ~Like(name, <<"s", "q", "l", "i", "t", "e", "_", "%">>)})

\* ListTables as a caller's operation
ListTables(t) ==
    /\ getDB(t)
    /\ UNCHANGED <<closed, now, tables, fts>>
    /\ lastOp' = [NoOp EXCEPT !.op = "ListTables", !.db = t,
                     !.executed = TRUE, !.results = ListedTables(t)]

\* the rows in the order they are stored
Unsorted(rows) == rows

\* ORDER BY created_at ASC over rows in rowid order: the row at position p
\* is the one with p - 1 rows before it
SortByCreatedAt(rows) ==
    [p \in 1..Len(rows) |->
        rows[CHOOSE k \in 1..Len(rows) :
                Cardinality({j \in 1..Len(rows) :
                    \/ rows[j].created_at < rows[k].created_at
                    \/ rows[j].created_at = rows[k].created_at /\ j < k})
                = p - 1]]

\* LIMIT ?: a negative limit is no limit
Limit(rows, limit) ==
    IF limit < 0 THEN rows ELSE SubSeq(rows, 1, Min(limit, Len(rows)))

\* GetNonEmbeddedDocuments' query fails on a table that does not exist or
\* has no is_embedded column (the documents table of schema.sql)
NonEmbeddedQueryFails(t, name) == name \notin DOMAIN tables[dbPath(t)]

\* WHERE is_embedded = 0 ORDER BY created_at ASC LIMIT ?
NonEmbeddedRows(t, name, limit) ==
    Limit(SortByCreatedAt(SelectSeq(RowsOf(t, name),
                                    LAMBDA r : r.is_embedded = 0)), limit)

NonEmbeddedDocuments(t, name, limit) ==
    [i \in 1..Len(NonEmbeddedRows(t, name, limit)) |->
        DocOfRow(NonEmbeddedRows(t, name, limit)[i])]

\* GetNonEmbeddedDocuments as a caller's operation
GetNonEmbeddedDocuments(t, name, limit) ==
    /\ getDB(t)
    /\ UNCHANGED <<closed, now, tables, fts>>
    /\ lastOp' = [NoOp EXCEPT !.op = "GetNonEmbeddedDocuments", !.db = t,
                     !.table = name, !.executed = TRUE, !.limit = limit,
                     !.err = IF NonEmbeddedQueryFails(t, name)
                             THEN "failed to query non-embedded documents"
                             ELSE "",
                     !.results = IF NonEmbeddedQueryFails(t, name) THEN <<>>
                                 ELSE NonEmbeddedDocuments(t, name, limit)]

\* C24: a successful UpdateDocumentVector leaves every other document of
\* every collection as it was and changes, in its document, only vector,
\* is_embedded (to 1) and updated_at: id, content, metadata, tags and
\* created_at stay.
C24_UpdateVectorChangesOnlyVectorFields ==
    [][lastOp'.op = "UpdateDocumentVector" /\ lastOp'.err = "" =>
        /\ \A t \in Tenants :
              /\ DOMAIN tables'[t] = DOMAIN tables[t]
              /\ \A n \in DOMAIN tables[t] :
                    /\ Len(tables'[t][n]) = Len(tables[t][n])
                    /\ \A i \in 1..Len(tables[t][n]) :
                          IF t = lastOp'.db /\ n = lastOp'.table
                               /\ tables[t][n][i].id = lastOp'.id
                          THEN /\ tables'[t][n][i] =
                                    [tables[t][n][i] EXCEPT
                                       !.vector = tables'[t][n][i].vector,
                                       !.is_embedded = tables'[t][n][i].is_embedded,
                                       !.updated_at = tables'[t][n][i].updated_at]
                               /\ tables'[t][n][i].is_embedded = 1
                               /\ tables'[t][n][i].vector =
                                    Blob(serializeVector(lastOp'.given.Vector))
                          ELSE tables'[t][n][i] = tables[t][n][i]]_vars

\* an update of a document stored without a vector at an earlier time, in
\* a collection that holds another document
C24_Witness ==
    /\ lastOp.op = "UpdateDocumentVector"
    /\ lastOp.err = ""
    /\ lastOp.pre.vector = NullBlob
    /\ lastOp.pre.is_embedded = 0
    /\ lastOp.given.Vector # <<>>
    /\ lastOp.pre.created_at < now
    /\ Len(RowsOf(lastOp.db, lastOp.table)) >= 2
    /\ RowOf(lastOp.db, lastOp.table, lastOp.id).is_embedded = 1

\* C25: a StoreDocument call rejected for its collection name leaves the
\* store as it was: no storage file, no cached connection, no table, index
\* or document is created or modified.
C25_RejectedStoreChangesNothing ==
    [][lastOp'.op = "StoreDocument" /\ lastOp'.err = "invalid table name" =>
        UNCHANGED <<files, dbs, opened, tables, fts>>]_vars

\* C13: GetDocument, DeleteDocument and UpdateDocumentVector with an id
\* that has no stored document fail with "document not found", for every
\* collection name, written before or not.
C13_AbsentIdIsNotFound ==
    /\ lastOp.op \in {"GetDocument", "DeleteDocument", "UpdateDocumentVector"}
    /\ lastOp.pre = NoRow
    => lastOp.err = "document not found"

FullTextHits(t, name, term) ==
    {r.id : r \in {x \in Range(RowsOf(t, name)) :
                      <<x.rowid, term>> \in FtsOf(t, name)}}

\* C15: after every write statement the full-text index holds exactly the
\* documents of the collection with their current content: a search for a
\* term returns the documents whose content is that term, and no other.
C15_FullTextMatchesStoredContent ==
    \A t \in Tenants : \A name \in DOMAIN tables[t] :
        \A term \in {d.Content : d \in DocInputs} :
            FullTextHits(t, name, term) =
                {r.id : r \in {x \in Range(RowsOf(t, name)) :
                                  x.content = term}}

(***************************************************************************)
(* SpecConn: goroutines resolve tenants through getDB concurrently.  The   *)
(* dbs map is a plain Go map with no lock: getDB is the steps below, and   *)
(* they interleave.  A map access that overlaps a map write is a data      *)
(* race: the runtime may stop the process ("fatal error: concurrent map    *)
(* writes" / "concurrent map read and map write") or let it go on.         *)
(***************************************************************************)
\* a store operation or the scheduler enters getDB(t)
ConnCall(c, t) ==
    /\ ~conc.crashed
    /\ conc.pc[c] = "idle"
    /\ conc' = [conc EXCEPT !.pc[c] = "lookup", !.tenant[c] = t,
                            !.db[c] = NoConn, !.ret[c] = NoConn]
    /\ UNCHANGED <<storeVars, filt, sched, worker>>

\* if db, exists := s.dbs[dbId]; exists { return db, nil }
ConnLookup(c) ==
    /\ ~conc.crashed
    /\ conc.pc[c] = "lookup"
    /\ \/ /\ conc.writing
          /\ conc' = [conc EXCEPT !.crashed = TRUE]
       \/ conc' = IF dbs[conc.tenant[c]] # NoConn
                  THEN [conc EXCEPT !.pc[c] = "done",
                                    !.ret[c] = dbs[conc.tenant[c]]]
                  ELSE [conc EXCEPT !.pc[c] = "open"]
    /\ UNCHANGED <<storeVars, filt, sched, worker>>

\* sql.Open, PRAGMA foreign_keys (which creates the file), initSchema
ConnOpen(c) ==
    /\ ~conc.crashed
    /\ conc.pc[c] = "open"
    /\ Len(opened) < MaxConns
    /\ opened' = Append(opened, conc.tenant[c])
    /\ files' = [files EXCEPT ![dbPath(conc.tenant[c])] =
                    IF @ = "absent" THEN "plain" ELSE @]
    /\ conc' = [conc EXCEPT !.pc[c] = "assign", !.db[c] = Len(opened) + 1]
    /\ UNCHANGED <<dbs, closed, tables, fts, now, lastOp, filt, sched, worker>>

\* s.dbs[dbId] = db: the map write begins
ConnAssignBegin(c) ==
    /\ ~conc.crashed
    /\ conc.pc[c] = "assign"
    /\ \/ /\ conc.writing
          /\ conc' = [conc EXCEPT !.crashed = TRUE]
       \/ conc' = [conc EXCEPT !.pc[c] = "assigning", !.writing = TRUE]
    /\ UNCHANGED <<storeVars, filt, sched, worker>>

\* s.dbs[dbId] = db: the map write ends; return db, nil
ConnAssignEnd(c) ==
    /\ ~conc.crashed
    /\ conc.pc[c] = "assigning"
    /\ dbs' = [dbs EXCEPT ![conc.tenant[c]] = conc.db[c]]
    /\ conc' = [conc EXCEPT !.pc[c] = "done", !.ret[c] = conc.db[c],
                            !.writing = FALSE]
    /\ UNCHANGED <<files, opened, closed, tables, fts, now, lastOp, filt, sched,
                   worker>>

\* the caller is done with the connection it was given
ConnReturn(c) ==
    /\ ~conc.crashed
    /\ conc.pc[c] = "done"
    /\ conc' = [conc EXCEPT !.pc[c] = "idle"]
    /\ UNCHANGED <<storeVars, filt, sched, worker>>

ConnInit ==
    /\ StoreInit
    /\ NonStoreIdle

ConnNext ==
    \E c \in Callers :
        \/ \E t \in Tenants : ConnCall(c, t)
        \/ ConnLookup(c)
        \/ ConnOpen(c)
        \/ ConnAssignBegin(c)
        \/ ConnAssignEnd(c)
        \/ ConnReturn(c)

SpecConn == ConnInit /\ [][ConnNext]_vars

\* the connections opened for tenant t
ConnsOf(t) == {i \in 1..Len(opened) : opened[i] = t}

\* C1: however callers interleave in getDB, each tenant has at most one
\* opened connection, so none is left outside the cache, and every caller
\* that has resolved the tenant holds the cached connection.
C1_OneConnectionPerTenant ==
    /\ \A t \in Tenants : Cardinality(ConnsOf(t)) <= 1
    /\ \A c \in Callers :
          conc.pc[c] = "done" => conc.ret[c] = dbs[conc.tenant[c]]

(***************************************************************************)
(* SpecSched: cycles of processNonEmbeddedDocuments, statement by          *)
(* statement, over tenants that hold unembedded documents.  The embedding  *)
(* service and the storage engine may fail and recover while a cycle runs. *)
(***************************************************************************)
\* maxDocuments := 15
MaxDocuments == 15

\* a fetch limit that does not take the cycle's progress into account
RemainingOfWholeCap(totalProcessed) == MaxDocuments

\* remaining := maxDocuments - totalProcessed
Remaining(totalProcessed) == MaxDocuments - totalProcessed

\* main: the llama.cpp embedder with the configured dimensionality when an
\* embedding URL is configured, the stub embedder otherwise
NewEmbedder(config) ==
    IF config.EmbeddingURL # "" /\ config.EmbeddingURL # "stub"
    THEN [kind |-> "llama", dimensions |-> config.EmbeddingDimensions]
    ELSE [kind |-> "stub", dimensions |-> StubDimensions]

\* the vector StubEmbedder.Embed returns
EmbeddedVector == Repeat(F1, StubDimensions)

\* Embed: the stub fills a vector of its own dimensionality; the llama.cpp
\* embedder parses the service's reply and rejects an empty one and one of
\* another length than its dimensions
Embed(embedder, reply) ==
    IF embedder.kind = "stub"
    THEN [err |-> "", vector |-> Repeat(F1, embedder.dimensions)]
    ELSE IF reply = <<>>
    THEN [err |-> "failed to parse embedding response", vector |-> <<>>]
    ELSE IF Len(reply) # embedder.dimensions
    THEN [err |-> "expected embedding dimension", vector |-> <<>>]
    ELSE [err |-> "", vector |-> reply]

\* the vectors the embedding service may reply with
Replies == {Repeat(F1, n) : n \in 0..(StubDimensions + 1)}

\* what the environment answers: everything works, embedder.Embed returns
\* an error, or the UPDATE of UpdateDocumentVector returns an error
EnvStates == {"ok", "embedFails", "updateFails"}
MaxEnvFlips == 1

\* the orders in which Go may iterate a map with the keys S
IterOrders(S) ==
    {o \in SeqUpTo(S, Cardinality(S)) :
        Len(o) = Cardinality(S) /\ Range(o) = S}

\* processNonEmbeddedDocuments is called
SchedCallStep ==
    sched' = [sched EXCEPT !.pc = "start", !.totalProcessed = 0, !.calls = 0,
                           !.persisted = {}, !.visited = {}, !.fetched = {},
                           !.attempted = {}, !.before = tables]

SchedCall ==
    /\ sched.pc = "idle"
    /\ SchedCallStep
    /\ UNCHANGED <<storeVars, filt, conc, worker>>

\* databases, err := store.ListDatabases(); totalProcessed := 0
SchedStart ==
    /\ sched.pc = "start"
    /\ \E iter \in IterOrders(dbNames) :
        /\ ListDatabases(SelectSeq(iter, LAMBDA t : dbs[t] = NoConn))
        /\ sched' = [sched EXCEPT !.pc = "db",
              !.databases = SelectSeq(iter, LAMBDA t : getDBInfoSucceeds(t))]
    /\ UNCHANGED <<filt, conc, worker>>

\* for _, db := range databases: the cap check, then store.ListTables
SchedDb ==
    /\ sched.pc = "db"
    /\ IF sched.databases = <<>> \/ sched.totalProcessed >= MaxDocuments
       THEN /\ sched' = [sched EXCEPT !.pc = "done", !.databases = <<>>,
                                      !.db = ""]
            /\ UNCHANGED storeVars
       ELSE /\ getDB(Head(sched.databases))
            /\ UNCHANGED <<closed, tables, fts, now, lastOp>>
            /\ sched' = [sched EXCEPT !.pc = "table",
                  !.db = Head(sched.databases),
                  !.databases = Tail(sched.databases),
                  !.tableNames = ListedTables(Head(sched.databases))]
    /\ UNCHANGED <<filt, conc, worker>>

\* for _, tableName := range tables: the cap check, then
\* store.GetNonEmbeddedDocuments(db.Name, tableName, remaining)
SchedTable ==
    /\ sched.pc = "table"
    /\ IF sched.tableNames = <<>> \/ sched.totalProcessed >= MaxDocuments
       THEN /\ sched' = [sched EXCEPT !.pc = "db", !.tableNames = <<>>]
            /\ UNCHANGED storeVars
       ELSE /\ getDB(sched.db)
            /\ UNCHANGED <<closed, tables, fts, now, lastOp>>
            /\ sched' =
                 IF \/ NonEmbeddedQueryFails(sched.db, Head(sched.tableNames))
                    \/ NonEmbeddedDocuments(sched.db, Head(sched.tableNames),
                          Remaining(sched.totalProcessed)) = <<>>
                 THEN [sched EXCEPT !.tableNames = Tail(sched.tableNames),
                         !.visited = @ \cup {<<sched.db,
                                                Head(sched.tableNames)>>}]
                 ELSE [sched EXCEPT !.pc = "doc",
                         !.tableName = Head(sched.tableNames),
                         !.tableNames = Tail(sched.tableNames),
                         !.visited = @ \cup {<<sched.db,
                                                Head(sched.tableNames)>>},
                         !.docs = NonEmbeddedDocuments(sched.db,
                                     Head(sched.tableNames),
                                     Remaining(sched.totalProcessed)),
                         !.fetched = @ \cup
                            {<<sched.db, Head(sched.tableNames), d.ID>> :
                                d \in Range(NonEmbeddedDocuments(sched.db,
                                     Head(sched.tableNames),
                                     Remaining(sched.totalProcessed)))}]
    /\ UNCHANGED <<filt, conc, worker>>

\* an embedding failure that ends the cycle
ReturnOnEmbedError(s) ==
    [s EXCEPT !.pc = "done", !.docs = <<>>, !.tableName = <<>>,
              !.tableNames = <<>>, !.databases = <<>>, !.db = ""]

\* if err != nil { log.Printf("Failed to embed document ..."); continue }
ContinueOnEmbedError(s) == [s EXCEPT !.docs = Tail(s.docs)]

\* for _, doc := range docs: vector, err := embedder.Embed(ctx, doc.Content)
SchedEmbed ==
    /\ sched.pc = "doc"
    /\ \E reply \in Replies :
       sched' =
         IF sched.docs = <<>>
         THEN [sched EXCEPT !.pc = "table", !.tableName = <<>>]
         ELSE IF \/ sched.env = "embedFails"
                 \/ Embed(NewEmbedder(sched.config), reply).err # ""
         THEN ContinueOnEmbedError(
                [sched EXCEPT !.calls = @ + 1,
                    !.attempted = @ \cup {<<sched.db, sched.tableName,
                                            Head(sched.docs).ID>>}])
         ELSE [sched EXCEPT !.calls = @ + 1, !.pc = "update",
                    !.attempted = @ \cup {<<sched.db, sched.tableName,
                                            Head(sched.docs).ID>>},
                    !.vector = Embed(NewEmbedder(sched.config), reply).vector]
    /\ UNCHANGED <<storeVars, filt, conc, worker>>

\* store.UpdateDocumentVector(db.Name, tableName, doc.ID, vector);
\* totalProcessed++
SchedUpdate ==
    /\ sched.pc = "update"
    /\ IF sched.env = "updateFails"
       THEN /\ getDB(sched.db)
            /\ UNCHANGED <<closed, tables, fts, now, lastOp>>
            /\ sched' = [sched EXCEPT !.pc = "doc", !.docs = Tail(sched.docs),
                                      !.vector = <<>>]
       ELSE /\ UpdateDocumentVector(sched.db, sched.tableName,
                                    Head(sched.docs).ID, sched.vector)
            /\ sched' =
                 IF IndexOf(RowsOf(sched.db, sched.tableName),
                            Head(sched.docs).ID) = 0
                 THEN [sched EXCEPT !.pc = "doc", !.docs = Tail(sched.docs),
                                    !.vector = <<>>]
                 ELSE [sched EXCEPT !.pc = "doc", !.docs = Tail(sched.docs),
                          !.vector = <<>>,
                          !.totalProcessed = @ + 1,
                          !.persisted = @ \cup {<<sched.db, sched.tableName,
                                                  Head(sched.docs).ID>>}]
    /\ UNCHANGED <<filt, conc, worker>>

\* processNonEmbeddedDocuments returns
SchedReturnStep == sched' = [sched EXCEPT !.pc = "idle"]

SchedReturn ==
    /\ sched.pc = "done"
    /\ SchedReturnStep
    /\ UNCHANGED <<storeVars, filt, conc, worker>>

\* the embedding service or the storage engine starts or stops failing
SchedEnvFlip ==
    /\ sched.flips < MaxEnvFlips
    /\ \E e \in EnvStates \ {sched.env} :
         sched' = [sched EXCEPT !.env = e, !.flips = @ + 1]
    /\ UNCHANGED <<storeVars, filt, conc, worker>>

\* the collections the tenants hold when the worker starts, each with
\* MaxTableDocs documents stored without a vector, the later rows with the
\* earlier CreatedAt
MaxTableDocs == 4
NameB == <<"b">>
SchedNames == {NameA, NameB}
SchedRows ==
    [i \in 1..MaxTableDocs |->
        [rowid |-> i, id |-> "d" \o ToString(i), content |-> "x",
         metadata |-> MarshalMetadata(NoMeta), tags |-> <<>>,
         vector |-> NullBlob, created_at |-> MaxTableDocs + 1 - i,
         updated_at |-> MaxTableDocs + 1 - i, is_embedded |-> 0]]

SchedInit ==
    /\ files \in [Tenants -> {"plain", "legacy"}]
    /\ dbs = [t \in Tenants |-> NoConn]
    /\ opened = <<>>
    /\ closed = {}
    /\ tables = [t \in Tenants |-> [n \in SchedNames |-> SchedRows]]
    /\ fts = [t \in Tenants |-> [n \in SchedNames |->
                UNION {FtsIndexed(SchedRows[i]) : i \in 1..MaxTableDocs}]]
    /\ now = MaxTableDocs + 1
    /\ lastOp = NoOp
    /\ filt = NoFilt
    /\ conc = NoConc
    /\ worker = NoWorker
    /\ \E e \in EnvStates :
         sched = [NoSched EXCEPT !.env = e, !.before = tables]

SchedNext ==
    \/ SchedCall
    \/ SchedStart
    \/ SchedDb
    \/ SchedTable
    \/ SchedEmbed
    \/ SchedUpdate
    \/ SchedReturn
    \/ SchedEnvFlip

SpecSched == SchedInit /\ [][SchedNext]_vars

\* the rows that differ from what they were when the cycle began
ChangedRows ==
    {x \in UNION {{<<t, n, i>> : i \in 1..Len(tables[t][n])} :
                     <<t, n>> \in Tenants \X SchedNames} :
        tables[x[1]][x[2]][x[3]] # sched.before[x[1]][x[2]][x[3]]}

UnembeddedRows ==
    {x \in UNION {{<<t, n, i>> : i \in 1..Len(tables[t][n])} :
                     <<t, n>> \in Tenants \X SchedNames} :
        tables[x[1]][x[2]][x[3]].is_embedded = 0}

\* C8: in one cycle at most 15 documents get a vector persisted, over all
\* tenants and collections, and every document still unembedded is the row
\* it was when the cycle began.
C8_CycleCap ==
    /\ sched.totalProcessed <= MaxDocuments
    /\ Cardinality(sched.persisted) <= MaxDocuments
    /\ Cardinality(ChangedRows) <= MaxDocuments
    /\ UnembeddedRows \cap ChangedRows = {}

\* a cycle has ended with 15 vectors persisted and has left an unembedded
\* document of a listed tenant for a later cycle
C8_Witness ==
    /\ sched.pc = "done"
    /\ Cardinality(ChangedRows) = MaxDocuments
    /\ \E x \in UnembeddedRows : getDBInfoSucceeds(x[1])

\* C9: in one cycle embedder.Embed is called at most 15 times, failed calls
\* and calls whose vector is not persisted included.
C9_EmbedCallsCap == sched.calls <= MaxDocuments

\* the collections a cycle has to visit: those ListTables returns for the
\* tenants ListDatabases returns
ListedCollections ==
    {x \in Tenants \X UNION {Range(ListedTables(t)) : t \in Tenants} :
        getDBInfoSucceeds(x[1]) /\ x[2] \in Range(ListedTables(x[1]))}

\* C12: a failed Embed or UpdateDocumentVector does not end the cycle: once
\* a batch is through, Embed has been called for every document fetched,
\* and a cycle that ends below the cap has visited every collection of
\* every listed tenant.
C12_FailureDoesNotAbortCycle ==
    /\ sched.pc \notin {"doc", "update"} => sched.attempted = sched.fetched
    /\ sched.pc = "done" /\ sched.totalProcessed < MaxDocuments
          => sched.visited = ListedCollections

\* a cycle has ended below the cap with a failed document and, after it,
\* a persisted one
C12_Witness ==
    /\ sched.pc = "done"
    /\ sched.totalProcessed < MaxDocuments
    /\ sched.persisted # {}
    /\ sched.attempted \ sched.persisted # {}
    /\ sched.flips > 0
    /\ sched.env = "ok"

(***************************************************************************)
(* SpecWorker: main starts startEmbeddingWorker, the ticker fires, the     *)
(* worker's select receives from the ticker or from the stop channel, the  *)
(* cycles it starts run the statements of processNonEmbeddedDocuments,     *)
(* and main closes the stop channel and returns.                           *)
(***************************************************************************)
\* go startEmbeddingWorker(store, embedder, stopWorker); time.NewTicker
MainStartWorker ==
    /\ worker.pc = "off"
    /\ worker' = [worker EXCEPT !.pc = "select"]
    /\ UNCHANGED <<storeVars, filt, conc, sched>>

\* the ticker's period elapses: ticker.C holds one tick, a tick that finds
\* it full is dropped
TickerFire ==
    /\ ~worker.exited
    /\ worker.pc \in {"select", "cycle"}
    /\ ~worker.tick
    /\ worker' = [worker EXCEPT !.tick = TRUE]
    /\ UNCHANGED <<storeVars, filt, conc, sched>>

\* case <-ticker.C: processNonEmbeddedDocuments(store, embedder).  When
\* stop is closed as well, select picks either ready case.
WorkerReceiveTick ==
    /\ ~worker.exited
    /\ worker.pc = "select"
    /\ worker.tick
    /\ worker' = [worker EXCEPT !.pc = "cycle", !.tick = FALSE,
                     !.startedAfterStop = @ \/ worker.stop]
    /\ SchedCallStep
    /\ UNCHANGED <<storeVars, filt, conc>>

\* case <-stop: without the return
WorkerReceiveStopAndLoop ==
    /\ ~worker.exited
    /\ worker.pc = "select"
    /\ worker.stop
    /\ worker' = [worker EXCEPT !.tick = FALSE]
    /\ UNCHANGED <<storeVars, filt, conc, sched>>

\* case <-stop: return (the deferred ticker.Stop() runs)
WorkerReceiveStop ==
    /\ ~worker.exited
    /\ worker.pc = "select"
    /\ worker.stop
    /\ worker' = [worker EXCEPT !.pc = "returned", !.tick = FALSE]
    /\ UNCHANGED <<storeVars, filt, conc, sched>>

\* a statement of the running cycle
WorkerCycleStep ==
    /\ ~worker.exited
    /\ worker.pc = "cycle"
    /\ \/ SchedStart
       \/ SchedDb
       \/ SchedTable
       \/ SchedEmbed
       \/ SchedUpdate

\* processNonEmbeddedDocuments returns to the loop
WorkerCycleReturn ==
    /\ ~worker.exited
    /\ worker.pc = "cycle"
    /\ sched.pc = "done"
    /\ SchedReturnStep
    /\ worker' = [worker EXCEPT !.pc = "select"]
    /\ UNCHANGED <<storeVars, filt, conc>>

\* <-sigChan; close(stopWorker)
MainCloseStop ==
    /\ worker.pc # "off"
    /\ ~worker.stop
    /\ worker' = [worker EXCEPT !.stop = TRUE]
    /\ UNCHANGED <<storeVars, filt, conc, sched>>

\* main returns after close(stopWorker): the process and its goroutines end
MainExit ==
    /\ worker.stop
    /\ ~worker.exited
    /\ worker' = [worker EXCEPT !.exited = TRUE]
    /\ UNCHANGED <<storeVars, filt, conc, sched>>

WorkerInit ==
    /\ SchedInit
    /\ sched.env = "ok"

WorkerNext ==
    \/ MainStartWorker
    \/ TickerFire
    \/ WorkerReceiveTick
    \/ WorkerReceiveStop
    \/ WorkerCycleStep
    \/ WorkerCycleReturn
    \/ MainCloseStop
    \/ MainExit

SpecWorker == WorkerInit /\ [][WorkerNext]_vars

\* C10: once the stop channel is closed the worker starts no cycle, even
\* with a tick pending: no call of processNonEmbeddedDocuments has begun
\* after the close.
C10_NoCycleStartsAfterStop == ~worker.startedAfterStop

(***************************************************************************)
(* SpecBackfill: the worker keeps running cycles, nothing else writes, and *)
(* the embedding service and the storage engine always answer.             *)
(***************************************************************************)
BackfillNext ==
    \/ SchedCall
    \/ SchedStart
    \/ SchedDb
    \/ SchedTable
    \/ SchedEmbed
    \/ SchedUpdate
    \/ SchedReturn

SpecBackfill == WorkerInit /\ [][BackfillNext]_vars /\ WF_vars(BackfillNext)

\* C11: with the worker running and every embedding call and vector update
\* succeeding, every document stored without a vector, in any tenant and
\* collection, is embedded after finitely many cycles.
C11_EveryDocumentEventuallyEmbedded == <>(UnembeddedRows = {})

(***************************************************************************)
(* SpecVector: vector searches on a collection whose documents were stored *)
(* with and without vectors                                                *)
(***************************************************************************)
\* the collection holds MaxVectorDocs documents
MaxVectorDocs == 3

\* the float32 bit patterns of 1.0 and 2.0
One == 1065353216
Two == 1073741824

\* float64(x) of a float32 given by its bits
Float32Value(bits) == CASE bits = 0 -> 0 [] bits = One -> 1 [] bits = Two -> 2

RECURSIVE dotProduct(_, _)
\* dotProduct: 0 for vectors of different lengths
dotProduct(a, b) ==
    IF Len(a) # Len(b) \/ a = <<>> THEN 0
    ELSE Float32Value(Head(a)) * Float32Value(Head(b))
           + dotProduct(Tail(a), Tail(b))

\* a score num / sqrt(den2), den2 > 0
ZeroScore == [num |-> 0, den2 |-> 1]

\* cosineSimilarity: dotProduct / (sqrt(normA) * sqrt(normB)), 0 for vectors
\* of different lengths or of norm 0
cosineSimilarity(a, b) ==
    IF Len(a) # Len(b) THEN ZeroScore
    ELSE IF dotProduct(a, a) = 0 \/ dotProduct(b, b) = 0 THEN ZeroScore
    ELSE [num |-> dotProduct(a, b), den2 |-> dotProduct(a, a) * dotProduct(b, b)]

RECURSIVE SumOfSquaredDiffs(_, _)
\* the sum of euclideanDistance's loop, for vectors of one length
SumOfSquaredDiffs(a, b) ==
    IF a = <<>> THEN 0
    ELSE (Float32Value(Head(a)) - Float32Value(Head(b)))
           * (Float32Value(Head(a)) - Float32Value(Head(b)))
         + SumOfSquaredDiffs(Tail(a), Tail(b))

\* -math.MaxFloat64: a score below every other score (ScoreGreater never
\* finds it greater, and finds every other score greater than it)
MinScore == [num |-> 0 - 1, den2 |-> 0]

\* -euclideanDistance(a, b): -sqrt(sum), -math.MaxFloat64 for vectors of
\* different lengths
NegatedEuclideanDistance(a, b) ==
    IF Len(a) # Len(b) THEN MinScore
    ELSE IF SumOfSquaredDiffs(a, b) = 0 THEN ZeroScore
    ELSE [num |-> 0 - SumOfSquaredDiffs(a, b), den2 |-> SumOfSquaredDiffs(a, b)]

\* switch metric: the score of a document vector against the query vector
MetricScore(metric, queryVector, docVector) ==
    IF metric = "euclidean" THEN NegatedEuclideanDistance(queryVector, docVector)
    ELSE IF metric = "dot"
    THEN [num |-> dotProduct(queryVector, docVector), den2 |-> 1]
    ELSE cosineSimilarity(queryVector, docVector)

Abs(n) == IF n < 0 THEN 0 - n ELSE n

\* results[i].Score > results[j].Score
ScoreGreater(x, y) ==
    x.num * Abs(x.num) * y.den2 > y.num * Abs(y.num) * x.den2

\* the rows of the query: WHERE is_embedded = 1 AND vector IS NOT NULL and
\* the filter clause
VectorQueryRows(rows, conditions) ==
    SelectSeq(rows, LAMBDA r : r.is_embedded = 1 /\ ~r.vector.isNull
                                 /\ EvalClause(r, conditions))

\* the loop over the rows: a row whose vector has bytes is scored and
\* appended
ScoredResults(rows, queryVector, metric) ==
    [i \in 1..Len(SelectSeq(rows, LAMBDA r : Len(r.vector.bytes) > 0)) |->
        [ID |-> SelectSeq(rows, LAMBDA r : Len(r.vector.bytes) > 0)[i].id,
         Score |-> MetricScore(metric, queryVector, deserializeVector(
            SelectSeq(rows, LAMBDA r : Len(r.vector.bytes) > 0)[i].vector.bytes)),
         Rank |-> 0]]

\* sort.Slice by Score descending: not stable, any order of equal scores
SortedByScore(results) ==
    {[i \in 1..Len(results) |-> results[p[i]]] :
        p \in {q \in [1..Len(results) -> 1..Len(results)] :
                 /\ \A i, j \in 1..Len(results) : i # j => q[i] # q[j]
                 /\ \A i, j \in 1..Len(results) :
                       i < j => ~ScoreGreater(results[q[j]].Score,
                                              results[q[i]].Score)}}

\* no truncation
TruncateNever(results, limit) == results

\* if limit > 0 && len(results) > limit { results = results[:limit] }
Truncate(results, limit) ==
    IF limit > 0 /\ Len(results) > limit THEN SubSeq(results, 1, limit)
    ELSE results

\* results[i].Rank = i + 1 (from index 0)
AddRanks(results) == [i \in 1..Len(results) |-> [results[i] EXCEPT !.Rank = i]]

\* searchVectorSimilarity; the filters are filt.filters, their keys iterated
\* in the order filt.order
searchVectorSimilarity(t, name, queryVector, limit, metric) ==
    /\ getDB(t)
    /\ UNCHANGED <<closed, now, tables, fts>>
    /\ IF name \notin DOMAIN tables[dbPath(t)]
       THEN lastOp' = [NoOp EXCEPT !.op = "SearchVector", !.db = t,
                          !.table = name, !.executed = TRUE,
                          !.query = queryVector, !.limit = limit,
                          !.metric = metric, !.err = "no such table"]
       ELSE \E sorted \in SortedByScore(ScoredResults(
                    VectorQueryRows(RowsOf(t, name),
                        buildFilterClause(filt.filters, filt.order)),
                    queryVector, metric)) :
              lastOp' = [NoOp EXCEPT !.op = "SearchVector", !.db = t,
                            !.table = name, !.executed = TRUE,
                            !.query = queryVector, !.limit = limit,
                            !.metric = metric,
                            !.results = AddRanks(Truncate(sorted, limit))]

\* what a stored document can hold: stored without a vector, stored
\* without a vector as embedded, given an empty vector by
\* UpdateDocumentVector, or stored with a vector
StoredVectors == {<<One, 0>>, <<0, One>>, <<One, One>>, <<Two, 0>>, <<One>>}
VectorRowsOf(doc) ==
    {StoredRow([doc EXCEPT !.IsEmbedded = b], doc.ID) : b \in BOOLEAN}
    \cup {UpdateVectorRow(StoredRow(doc, doc.ID), <<>>)}
    \cup {StoredRow([doc EXCEPT !.Vector = v], doc.ID) : v \in StoredVectors}

VectorDoc(i) ==
    [NoDoc EXCEPT !.ID = "d" \o ToString(i), !.Content = "x",
                  !.Tags = IF i % 2 = 1 THEN << <<"a">> >> ELSE <<>>]

VectorQueries == {<<One, 0>>, <<One, One>>}
VectorLimits == 0..MaxVectorDocs
VectorFilters == {<<>>, ("tag" :> StringValue(<<"a">>))}

VectorInit ==
    /\ now = 1
    /\ files = [t \in Tenants |-> IF t = "t1" THEN "plain" ELSE "absent"]
    /\ dbs = [t \in Tenants |-> NoConn]
    /\ opened = <<>>
    /\ closed = {}
    /\ \E rows \in [1..MaxVectorDocs -> UNION {VectorRowsOf(VectorDoc(i)) :
                                               i \in 1..MaxVectorDocs}] :
          /\ \A i \in 1..MaxVectorDocs : rows[i].id = VectorDoc(i).ID
          /\ tables = [t \in Tenants |->
                IF t = "t1"
                THEN (NameA :> [i \in 1..MaxVectorDocs |->
                                  [rows[i] EXCEPT !.rowid = i]])
                ELSE EmptyTables]
    /\ fts = [t \in Tenants |->
                [n \in DOMAIN tables[t] |->
                    UNION {FtsIndexed(tables[t][n][i]) :
                              i \in 1..Len(tables[t][n])}]]
    /\ lastOp = NoOp
    /\ \E f \in VectorFilters : \E o \in KeyOrders(f) :
          filt = [NoFilt EXCEPT !.filters = f, !.order = o]
    /\ conc = NoConc
    /\ sched = NoSched
    /\ worker = NoWorker

\* SearchVector: searchVectorSimilarity with the metric cosine
VectorSearch ==
    /\ \E n \in {NameA, NameB}, q \in VectorQueries, l \in VectorLimits :
          searchVectorSimilarity("t1", n, q, l, "cosine")
    /\ UNCHANGED nonStoreVars

VectorNext == VectorSearch

SpecVector == VectorInit /\ [][VectorNext]_vars

\* the rows a vector search ranks: embedded, with a vector that is not
\* NULL, satisfying the filter
RankedRows ==
    {i \in 1..Len(RowsOf(lastOp.db, lastOp.table)) :
        /\ RowsOf(lastOp.db, lastOp.table)[i].is_embedded = 1
        /\ ~RowsOf(lastOp.db, lastOp.table)[i].vector.isNull
        /\ EvalClause(RowsOf(lastOp.db, lastOp.table)[i],
                      buildFilterClause(filt.filters, filt.order))}

\* the score of a stored row against the search's query vector
ScoreOfRow(i) ==
    MetricScore(lastOp.metric, lastOp.query, deserializeVector(
        RowsOf(lastOp.db, lastOp.table)[i].vector.bytes))

\* the results are the L highest-scoring rows of the set S of row indices
\* (all of them if fewer), in non-increasing score order, ranked 1, 2, ...
TopRanked(S) ==
    /\ Len(lastOp.results) = Min(lastOp.limit, Cardinality(S))
    /\ \A i \in 1..Len(lastOp.results) :
          /\ lastOp.results[i].Rank = i
          /\ \E k \in S :
                /\ RowsOf(lastOp.db, lastOp.table)[k].id = lastOp.results[i].ID
                /\ lastOp.results[i].Score = ScoreOfRow(k)
          /\ \A j \in 1..Len(lastOp.results) :
                /\ i # j => lastOp.results[i].ID # lastOp.results[j].ID
                /\ i < j => ~ScoreGreater(lastOp.results[j].Score,
                                          lastOp.results[i].Score)
          /\ \A k \in S :
                (\A j \in 1..Len(lastOp.results) :
                    lastOp.results[j].ID # RowsOf(lastOp.db, lastOp.table)[k].id)
                => ~ScoreGreater(ScoreOfRow(k), lastOp.results[i].Score)

Metrics == {"euclidean", "dot"}

MetricSearch ==
    /\ \E n \in {NameA, NameB}, q \in VectorQueries, l \in VectorLimits,
          m \in Metrics :
          searchVectorSimilarity("t1", n, q, l, m)
    /\ UNCHANGED nonStoreVars

MetricNext == MetricSearch

SpecMetric == VectorInit /\ [][MetricNext]_vars

\* the stored row of a result
RowOfResult(i) ==
    RowOf(lastOp.db, lastOp.table, lastOp.results[i].ID)

\* C21: in a Euclidean or dot-product search no result is a row whose
\* vector length differs from the query vector's length.
C21_MismatchedRowsAreSkipped ==
    lastOp.op = "SearchVector" /\ lastOp.metric \in Metrics =>
        \A i \in 1..Len(lastOp.results) :
            Len(deserializeVector(RowOfResult(i).vector.bytes))
                = Len(lastOp.query)

(***************************************************************************)
(* SpecUnembedded: GetNonEmbeddedDocuments on a collection of documents    *)
(* stored at different times, some of them embedded                        *)
(***************************************************************************)
\* the creation times of the stored documents
CreatedAts == 1..MaxVectorDocs

UnembeddedInit ==
    /\ now = MaxVectorDocs + 1
    /\ files = [t \in Tenants |-> IF t = "t1" THEN "plain" ELSE "absent"]
    /\ dbs = [t \in Tenants |-> NoConn]
    /\ opened = <<>>
    /\ closed = {}
    /\ \E c \in [1..MaxVectorDocs -> CreatedAts],
          b \in [1..MaxVectorDocs -> BOOLEAN] :
          tables = [t \in Tenants |->
                IF t = "t1"
                THEN (NameA :> [i \in 1..MaxVectorDocs |->
                        [StoredRow([VectorDoc(i) EXCEPT !.CreatedAt = c[i],
                                                        !.IsEmbedded = b[i]],
                                   VectorDoc(i).ID) EXCEPT !.rowid = i]])
                ELSE EmptyTables]
    /\ fts = [t \in Tenants |->
                [n \in DOMAIN tables[t] |->
                    UNION {FtsIndexed(tables[t][n][i]) :
                              i \in 1..Len(tables[t][n])}]]
    /\ lastOp = NoOp
    /\ NonStoreIdle

UnembeddedGet ==
    /\ \E n \in {NameA, NameB}, l \in (0 - 1)..(MaxVectorDocs + 1) :
          GetNonEmbeddedDocuments("t1", n, l)
    /\ UNCHANGED nonStoreVars

UnembeddedNext == UnembeddedGet

SpecUnembedded == UnembeddedInit /\ [][UnembeddedNext]_vars

\* the rows of the operation's collection with is_embedded = 0
UnembeddedOf ==
    {i \in 1..Len(RowsOf(lastOp.db, lastOp.table)) :
        RowsOf(lastOp.db, lastOp.table)[i].is_embedded = 0}

\* the results are unembedded documents of the collection, each once,
\* oldest first, as many as the limit allows
OldestUnembedded ==
    /\ Len(lastOp.results) <= lastOp.limit
    /\ Cardinality(UnembeddedOf) <= lastOp.limit =>
          Len(lastOp.results) = Cardinality(UnembeddedOf)
    /\ \A i \in 1..Len(lastOp.results) :
          /\ ~lastOp.results[i].IsEmbedded
          /\ \E k \in UnembeddedOf :
                lastOp.results[i] =
                    DocOfRow(RowsOf(lastOp.db, lastOp.table)[k])
          /\ \A j \in 1..Len(lastOp.results) :
                /\ i # j => lastOp.results[i].ID # lastOp.results[j].ID
                /\ i < j => lastOp.results[i].CreatedAt
                               <= lastOp.results[j].CreatedAt

NameGifts == <<"g", "i", "f", "t", "s">>
NameFts == <<"f", "t", "s">>
TableNames == {NameA, NameB, NameGifts, NameFts}

TablesStore ==
    /\ \E n \in TableNames, c \in {"", "x"} :
          StoreDocument("t1", n, [NoDoc EXCEPT !.ID = "d1", !.Content = c])
    /\ UNCHANGED nonStoreVars

TablesList ==
    /\ ListTables("t1")
    /\ UNCHANGED nonStoreVars

TablesNext == TablesStore \/ TablesList

SpecTables == DocInit /\ [][TablesNext]_vars

\* C23: ListTables(t) returns exactly the names of the collections created
\* in tenant t, each once, for every collection name the identifier rule
\* accepts.
C23_ListTablesListsCreatedCollections ==
    lastOp.op = "ListTables" =>
        /\ Range(lastOp.results) = DOMAIN tables[lastOp.db]
        /\ Len(lastOp.results) = Cardinality(DOMAIN tables[lastOp.db])

\* C26: no stored document has empty content: the store operation rejects
\* a document whose content is empty before any write.
C26_EmptyContentNeverStored ==
    \A t \in Tenants : \A n \in DOMAIN tables[t] :
        \A i \in 1..Len(tables[t][n]) : tables[t][n][i].content # ""

(***************************************************************************)
(* SpecClose: documents are stored in the tenants, then the store is       *)
(* closed at shutdown                                                      *)
(***************************************************************************)
CloseStore ==
    /\ lastOp.op # "Close"
    /\ DbStore

CloseAll ==
    /\ lastOp.op # "Close"
    /\ \E o \in SeqUpTo(Tenants, Cardinality(Tenants)) :
          \E f \in 0..Len(o) : Close(o, f)
    /\ UNCHANGED nonStoreVars

CloseNext == CloseStore \/ CloseAll

SpecClose == DbInit /\ [][CloseNext]_vars

\* C27: after Close() returns every connection of the tenant cache has
\* been closed, whatever the outcome of closing any one of them.
C27_CloseClosesEveryConnection ==
    lastOp.op = "Close" =>
        \A t \in Tenants : dbs[t] # NoConn => dbs[t] \in closed

(***************************************************************************)
(* SpecIsolation: callers name their tenants by any dbId; the store takes  *)
(* the dbId as the cache key and builds the file path from it              *)
(***************************************************************************)
\* the dbIds callers pass: two plain names and a name with a leading "./"
DbIds == Tenants \cup {"./t1"}

IsolationInit ==
    /\ files = [t \in Tenants |-> "absent"]
    /\ dbs = [t \in DbIds |-> NoConn]
    /\ opened = <<>>
    /\ closed = {}
    /\ tables = [t \in Tenants |-> EmptyTables]
    /\ fts = [t \in Tenants |-> EmptyTables]
    /\ now = 1
    /\ lastOp = NoOp
    /\ NonStoreIdle

IsolationStore ==
    /\ \E t \in DbIds, c \in {"x", "y"} :
          StoreDocument(t, NameA, [NoDoc EXCEPT !.ID = "d1", !.Content = c])
    /\ UNCHANGED nonStoreVars

IsolationGet ==
    /\ \E t \in DbIds : GetDocument(t, NameA, "d1")
    /\ UNCHANGED nonStoreVars

IsolationDelete ==
    /\ \E t \in DbIds : DeleteDocument(t, NameA, "d1")
    /\ UNCHANGED nonStoreVars

\* DeleteDatabase, while no connection to the same file is cached under
\* another dbId
IsolationDeleteDatabase ==
    /\ \E t \in DbIds :
          /\ \A u \in DbIds \ {t} : dbPath(u) = dbPath(t) => dbs[u] = NoConn
          /\ DeleteDatabase(t)
    /\ UNCHANGED nonStoreVars

IsolationNext ==
    \/ IsolationStore
    \/ IsolationGet
    \/ IsolationDelete
    \/ IsolationDeleteDatabase

SpecIsolation == IsolationInit /\ [][IsolationNext]_vars

\* C28: a write, a delete or a DeleteDatabase on one tenant leaves the
\* collections and documents of every other tenant, which are what get,
\* list and search on that tenant read, unchanged.
C28_TenantsAreIsolated ==
    [][lastOp'.op \in {"StoreDocument", "DeleteDocument", "DeleteDatabase"} =>
        \A b \in DbIds \ {lastOp'.db} :
            tables'[dbPath(b)] = tables[dbPath(b)]]_vars

(***************************************************************************)
(* SpecApi: the HTTP handlers call the store and answer with a status      *)
(***************************************************************************)
\* API.StoreDocument: an empty content is answered before the store is
\* called
\* called, and with the X-Client-Features header the embedder's vector is
\* stored with the document
ApiStoreDocument(dbName, tableName, id, content, shouldEmbed, reply) ==
    IF content = ""
    THEN /\ lastOp' = [NoOp EXCEPT !.op = "StoreDocument", !.db = dbName,
                          !.table = tableName, !.err = "content is required"]
         /\ UNCHANGED <<files, dbs, opened, closed, tables, fts, now>>
    ELSE IF shouldEmbed /\ Embed(NewEmbedder(sched.config), reply).err # ""
    THEN /\ lastOp' = [NoOp EXCEPT !.op = "StoreDocument", !.db = dbName,
                          !.table = tableName, !.err = "vectorization failed",
                          !.given = [NoDoc EXCEPT !.ID = id,
                                                  !.Content = content]]
         /\ UNCHANGED <<files, dbs, opened, closed, tables, fts, now>>
    ELSE StoreDocument(dbName, tableName,
            [NoDoc EXCEPT !.ID = id, !.Content = content,
                !.Vector = IF shouldEmbed
                           THEN Embed(NewEmbedder(sched.config), reply).vector
                           ELSE <<>>,
                !.IsEmbedded = shouldEmbed])

\* strings.Contains(err.Error(), "not found")
ContainsNotFound(err) == err \in {"document not found", "database not found"}

\* the status the handler of the last operation answers with
ApiStatus ==
    IF lastOp.op = "StoreDocument"
    THEN IF lastOp.err = "content is required" THEN 400
         ELSE IF lastOp.err # "" THEN 500 ELSE 201
    ELSE IF lastOp.op = "GetDocument"
    THEN IF lastOp.err = "" THEN 200
         ELSE IF ContainsNotFound(lastOp.err) THEN 404 ELSE 500
    ELSE IF lastOp.op = "DeleteDocument"
    THEN IF lastOp.err = "" THEN 204
         ELSE IF ContainsNotFound(lastOp.err) THEN 404 ELSE 500
    ELSE IF lastOp.op = "DeleteDatabase"
    THEN IF lastOp.err # "" THEN 500 ELSE 204
    ELSE IF lastOp.op = "ListTables"
    THEN IF lastOp.err # "" THEN 500 ELSE 200
    ELSE 0

ApiStore ==
    /\ \E t \in Tenants, n \in {NameA, NameDash}, c \in {"", "x"},
          shouldEmbed \in BOOLEAN :
          ApiStoreDocument(t, n, "", c, shouldEmbed, <<>>)
    /\ UNCHANGED nonStoreVars

ApiGet ==
    /\ \E t \in Tenants, n \in {NameA, NameDash}, i \in GenIds \cup DocIds :
          GetDocument(t, n, i)
    /\ UNCHANGED nonStoreVars

ApiDelete ==
    /\ \E t \in Tenants, n \in {NameA, NameDash}, i \in GenIds \cup DocIds :
          DeleteDocument(t, n, i)
    /\ UNCHANGED nonStoreVars

ApiDeleteDatabase ==
    /\ \E t \in Tenants : DeleteDatabase(t)
    /\ UNCHANGED nonStoreVars

ApiListTables ==
    /\ \E t \in Tenants : ListTables(t)
    /\ UNCHANGED nonStoreVars

ApiNext ==
    ApiStore \/ ApiGet \/ ApiDelete \/ ApiDeleteDatabase \/ ApiListTables

SpecApi == DocInit /\ [][ApiNext]_vars

\* the last operation met a NotFound condition: a document that is absent,
\* or the deletion of a tenant that does not exist
NotFoundCondition ==
    \/ lastOp.op \in {"GetDocument", "DeleteDocument"} /\ lastOp.pre = NoRow
    \/ lastOp.op = "DeleteDatabase" /\ ~lastOp.existed

\* the last operation met a validation error or an invalid collection name
BadRequestCondition ==
    /\ lastOp.op = "StoreDocument"
    /\ lastOp.given.Content = "" \/ ~isValidTableName(lastOp.table)

\* C29: the handlers answer a NotFound condition with 404, a validation
\* error or an invalid collection name with 400, and answer 500 only for
\* other failures.
C29_StatusFollowsErrorKind ==
    lastOp.op # "none" =>
        /\ NotFoundCondition => ApiStatus = 404
        /\ BadRequestCondition => ApiStatus = 400
        /\ ApiStatus = 500 => ~NotFoundCondition /\ ~BadRequestCondition

(***************************************************************************)
(* SpecEmbed: main builds the embedder from the configuration; the         *)
(* scheduler and the store handler persist what it returns                 *)
(***************************************************************************)
\* the configurations main may load: EMBEDDING_URL and EMBEDDING_DIMENSIONS
\* are set independently of each other
Configs ==
    [EmbeddingURL : {"stub", "http://embedder"},
     EmbeddingDimensions : {StubDimensions, StubDimensions + 1}]

EmbedInit ==
    /\ files = [t \in Tenants |-> IF t = "t1" THEN "legacy" ELSE "plain"]
    /\ dbs = [t \in Tenants |-> NoConn]
    /\ opened = <<>>
    /\ closed = {}
    /\ tables = [t \in Tenants |-> [n \in {NameA} |-> SchedRows]]
    /\ fts = [t \in Tenants |-> [n \in {NameA} |->
                UNION {FtsIndexed(SchedRows[i]) : i \in 1..MaxTableDocs}]]
    /\ now = MaxTableDocs + 1
    /\ lastOp = NoOp
    /\ filt = NoFilt
    /\ conc = NoConc
    /\ worker = NoWorker
    /\ \E c \in Configs :
         sched = [NoSched EXCEPT !.config = c, !.before = tables,
                                 !.flips = MaxEnvFlips]

\* POST /db/t1/a with X-Client-Features: true
EmbedStore ==
    /\ \E reply \in Replies :
          ApiStoreDocument("t1", NameA, "d1", "y", TRUE, reply)
    /\ UNCHANGED nonStoreVars

EmbedNext ==
    \/ SchedCall
    \/ SchedStart
    \/ SchedDb
    \/ SchedTable
    \/ SchedEmbed
    \/ SchedUpdate
    \/ SchedReturn
    \/ EmbedStore

SpecEmbed == EmbedInit /\ [][EmbedNext]_vars

\* C30: every vector the scheduler or the store handler persisted has the
\* configured embedding dimensionality as its length.
C30_PersistedVectorsHaveConfiguredLength ==
    \A t \in Tenants : \A n \in DOMAIN tables[t] :
        \A i \in 1..Len(tables[t][n]) :
            tables[t][n][i].is_embedded = 1 =>
                Len(deserializeVector(tables[t][n][i].vector.bytes))
                    = sched.config.EmbeddingDimensions

C32_AccessCreatesCollection ==
    lastOp.op = "GetDocument" /\ isValidTableName(lastOp.table) =>
        /\ lastOp.table \in DOMAIN tables[dbPath(lastOp.db)]
        /\ lastOp.err # "no such table"

(***************************************************************************)
(* A cycle interleaved with foreground stores (checked on SpecEmbed)       *)
(***************************************************************************)
\* C33: when the cycle writes a vector onto a document, the document's
\* stored content is the content the vector was computed from.
C33_VectorMatchesStoredContent ==
    [][(/\ sched.pc = "update"
        /\ lastOp'.op = "UpdateDocumentVector" /\ lastOp'.err = ""
        /\ IndexOf(RowsOf(sched.db, sched.tableName),
                   Head(sched.docs).ID) # 0)
       => RowOf(sched.db, sched.tableName, Head(sched.docs).ID).content
             = Head(sched.docs).Content]_vars

(***************************************************************************)
(* SpecUse: goroutines obtain a connection from getDB and then execute     *)
(* their statement on it, while DeleteDatabase and Close run               *)
(***************************************************************************)
\* GetDocument: db, err := s.getDB(dbId)
UseGetDB(c, t) ==
    /\ conc.pc[c] = "idle"
    /\ getDB(t)
    /\ conc' = [conc EXCEPT !.pc[c] = "exec", !.tenant[c] = t,
                            !.db[c] = dbs'[t]]
    /\ UNCHANGED <<closed, tables, fts, now, lastOp, filt, sched, worker>>

\* GetDocument: db.QueryRow(query, id).Scan(...) on the connection getDB
\* returned; database/sql answers a closed connection with an error
UseQuery(c) ==
    /\ conc.pc[c] = "exec"
    /\ conc' = [conc EXCEPT !.pc[c] = "idle", !.db[c] = NoConn]
    /\ lastOp' = [NoOp EXCEPT !.op = "GetDocument", !.db = conc.tenant[c],
                     !.executed = TRUE,
                     !.err = IF conc.db[c] \in closed
                             THEN "sql: database is closed"
                             ELSE "no such table"]
    /\ UNCHANGED <<files, dbs, opened, closed, tables, fts, now, filt, sched,
                   worker>>

UseDeleteDatabase ==
    /\ \E t \in Tenants : DeleteDatabase(t)
    /\ UNCHANGED nonStoreVars

\* main returns: the deferred store.Close() runs while the goroutines of
\* the handlers and of the worker are still there
UseClose ==
    /\ \E o \in SeqUpTo(Tenants, Cardinality(Tenants)) : Close(o, 0)
    /\ UNCHANGED nonStoreVars

UseNext ==
    \/ \E c \in Callers, t \in Tenants : UseGetDB(c, t)
    \/ \E c \in Callers : UseQuery(c)
    \/ UseDeleteDatabase
    \/ UseClose

SpecUse == ConnInit /\ [][UseNext]_vars

\* C34: no statement is executed on a connection that has been closed.
C34_NoUseAfterClose ==
    lastOp.op = "GetDocument" => lastOp.err # "sql: database is closed"

(***************************************************************************)
(* SpecKey: buildFilterClause compiles filters whose metadata keys are     *)
(* whatever the caller sent                                                *)
(***************************************************************************)
\* the filter keys a request body may carry besides tag and tags
MetaKeys == {"k", "k_1", "k') OR ('1"}

\* the characters of a filter key
KeySpelling(key) ==
    CASE key = "k" -> <<"k">>
      [] key = "k_1" -> <<"k", "_", "1">>
      [] key = "tag" -> <<"t", "a", "g">>
      [] key = "tags" -> <<"t", "a", "g", "s">>
      [] key = "k') OR ('1" ->
            <<"k", "'", ")", " ", "O", "R", " ", "(", "'", "1">>

KeyFilterSpecs ==
    {(k :> v) : k \in MetaKeys, v \in MetaValues}
    \cup {(k :> v @@ "tag" :> StringValue(x)) :
             k \in MetaKeys, v \in MetaValues, x \in {<<"a">>, <<"b">>}}

KeyInit ==
    /\ StoreInit
    /\ files = [t \in Tenants |-> "absent"]
    /\ conc = NoConc
    /\ sched = NoSched
    /\ worker = NoWorker
    /\ \E f \in KeyFilterSpecs : \E o \in KeyOrders(f) :
          filt = [NoFilt EXCEPT !.filters = f, !.order = o]

\* filterClause, filterArgs := buildFilterClause(filters, "d")
KeyCompile ==
    /\ filt.result = "none"
    /\ filt' = [filt EXCEPT
          !.sql = ClauseText(buildFilterClause(filt.filters, filt.order)),
          !.args = ClauseArgs(buildFilterClause(filt.filters, filt.order)),
          !.result = "compiled"]
    /\ UNCHANGED <<storeVars, conc, sched, worker>>

KeyNext == KeyCompile

SpecKey == KeyInit /\ [][KeyNext]_vars

\* C35: a metadata key is written into the compiled fragment only when it
\* passes the identifier rule; a filter with another key is rejected, so
\* nothing is compiled from it.
C35_OnlyIdentifierKeysReachQueryText ==
    filt.result = "compiled" =>
        \A k \in DOMAIN filt.filters : isValidTableName(KeySpelling(k))

(***************************************************************************)
(* SpecCollide: collections whose names differ by the _fts suffix          *)
(***************************************************************************)
NameAFts == FtsName(NameA)
CollideNames == {NameA, NameAFts, NameB}

CollideStore ==
    /\ \E n \in CollideNames, c \in {"x", "y"} :
          StoreDocument("t1", n, [NoDoc EXCEPT !.ID = "d1", !.Content = c])
    /\ UNCHANGED nonStoreVars

CollideGet ==
    /\ \E n \in CollideNames : GetDocument("t1", n, "d1")
    /\ UNCHANGED nonStoreVars

CollideNext == CollideStore \/ CollideGet

SpecCollide == DocInit /\ [][CollideNext]_vars

\* the tables of sqlite_master that ensureTable creates for a collection
CollectionTables(name) == {name} \cup FtsTables(name)

\* C36: the backend tables of two distinct valid collection names are
\* disjoint, and StoreDocument on a valid name succeeds whatever other
\* collections exist.
C36_CollectionsAreIndependent ==
    /\ \A n, m \in CollideNames :
          n # m => CollectionTables(n) \cap CollectionTables(m) = {}
    /\ lastOp.op = "StoreDocument" /\ isValidTableName(lastOp.table)
          => lastOp.err = ""

(***************************************************************************)
(* SpecStop: the worker under the scheduling Go gives it: a running cycle  *)
(* goes on, and a select with stop closed and a tick pending is not        *)
(* resolved against stop forever.  Nothing makes main wait before it       *)
(* returns.                                                                *)
(***************************************************************************)
SpecStop ==
    /\ WorkerInit
    /\ [][WorkerNext]_vars
    /\ WF_vars(WorkerCycleStep)
    /\ WF_vars(WorkerCycleReturn)
    /\ SF_vars(WorkerReceiveStop)

\* the worker makes no embedding call and no storage write in this step
WorkerQuiet == UNCHANGED <<sched, files, dbs, opened, tables, fts>>

C38_StoreWithoutVectorClearsEmbedding ==
    (/\ lastOp.op = "StoreDocument" /\ lastOp.err = ""
     /\ lastOp.pre # NoRow
     /\ lastOp.pre.is_embedded = 1 /\ ~lastOp.pre.vector.isNull
     /\ lastOp.given.Vector = <<>>)
    => /\ RowOf(lastOp.db, lastOp.table, lastOp.id).vector.isNull
       /\ RowOf(lastOp.db, lastOp.table, lastOp.id).is_embedded = 0

(***************************************************************************)
(* Reads create the tenant's storage (checked on SpecApi)                  *)
(***************************************************************************)
ResolvingOps == {"GetDocument", "DeleteDocument", "ListTables"}

DocOfListedRow(r) == [DocOfRow(r) EXCEPT !.Tags = <<>>]

\* ORDER BY created_at DESC: any order of the rows in which no row comes
\* before one with a later created_at
OrderedByCreatedAtDesc(rows) ==
    {[i \in 1..Len(rows) |-> rows[p[i]]] :
        p \in {q \in [1..Len(rows) -> 1..Len(rows)] :
                 /\ \A i, j \in 1..Len(rows) : i # j => q[i] # q[j]
                 /\ \A i, j \in 1..Len(rows) :
                       i < j => rows[q[i]].created_at >= rows[q[j]].created_at}}

\* LIMIT ? OFFSET ?: a negative limit is no limit, a negative offset none
Window(rows, limit, offset) ==
    Limit(SubSeq(rows, Max(offset, 0) + 1, Len(rows)), limit)

ListDocuments(t, name, limit, offset) ==
    /\ getDB(t)
    /\ UNCHANGED <<closed, now, tables, fts>>
    /\ IF name \notin DOMAIN tables[dbPath(t)]
       THEN lastOp' = [NoOp EXCEPT !.op = "ListDocuments", !.db = t,
                          !.table = name, !.executed = TRUE, !.limit = limit,
                          !.err = "no such table"]
       ELSE \E sorted \in OrderedByCreatedAtDesc(RowsOf(t, name)) :
              lastOp' = [NoOp EXCEPT !.op = "ListDocuments", !.db = t,
                            !.table = name, !.executed = TRUE,
                            !.limit = limit,
                            !.results =
                               [i \in 1..Len(Window(sorted, limit, offset)) |->
                                  DocOfListedRow(
                                     Window(sorted, limit, offset)[i])]]

ListStore ==
    /\ \E i \in {"d1", "d2"}, tl \in {<<>>, <<<<"a">>>>},
          v \in VectorInputs :
          StoreDocument("t1", NameA,
              [NoDoc EXCEPT !.ID = i, !.Content = "x", !.Tags = tl,
                            !.Vector = v])
    /\ UNCHANGED nonStoreVars

ListList ==
    /\ \E l \in 0..2, o \in 0..1 : ListDocuments("t1", NameA, l, o)
    /\ UNCHANGED nonStoreVars

ListNext == ListStore \/ ListList \/ DocTick

SpecList == DocInit /\ [][ListNext]_vars

\* C40: each document ListDocuments returns has the tags, metadata and
\* vector GetDocument returns for its id, and the documents are in
\* descending created_at order.
C40_ListedDocumentsMatchGetDocument ==
    lastOp.op = "ListDocuments" /\ lastOp.err = "" =>
        /\ \A i \in 1..Len(lastOp.results) :
              LET d == DocOfRow(RowOf(lastOp.db, lastOp.table,
                                      lastOp.results[i].ID))
              IN /\ lastOp.results[i].Tags = d.Tags
                 /\ lastOp.results[i].Metadata = d.Metadata
                 /\ lastOp.results[i].Vector = d.Vector
        /\ \A i, j \in 1..Len(lastOp.results) :
              i < j => lastOp.results[i].CreatedAt
                          >= lastOp.results[j].CreatedAt

====
